---- MODULE Spec2Model ----
(***************************************************************************)
(* Notification routing core of thelounge-plugin-external-notify:          *)
(* NotificationManager (lib/notification-manager.js) with its filter       *)
(* pipeline, dedup cache, cleanup timer and fan-out to the notifiers.      *)
(* Around it: enable, disable and the IRC event listeners of index.js, the *)
(* configuration file of lib/config-manager.js and the construction of     *)
(* the pushover notifier.                                                  *)
(*                                                                         *)
(* Strings are sequences of one-character strings, so that toLowerCase,    *)
(* includes, substring and startsWith are computed as the code computes    *)
(* them.  Time is in milliseconds.                                         *)
(***************************************************************************)
EXTENDS Integers, Sequences, FiniteSets, TLC

VARIABLES
    config,               \* this.config of the NotificationManager
    client,               \* the client object handed to processMessage (name, away)
    notifiers,            \* this.notifiers: service names, in insertion order
    recentNotifications,  \* this.recentNotifications: the Set of dedup keys
    invocations,          \* the processMessage calls made so far, in call order
    sendLog,              \* every notifier.send call, in the order the calls were made
    now,                  \* the clock, ms since the NotificationManager was constructed
    nextCleanupAt,        \* when the setInterval timer is next due
    isSetup,              \* the names in this.notifiers whose notifier is in ready mode
    session,              \* the pluginState entry of one client-network pair
    configFile,           \* the user's configuration file on disk
    pushoverModule,       \* which lib/notifiers/pushover.js is installed
    pluginState,          \* the pluginState Map of index.js, with all its entries
    store,                \* a ConfigManager on its own: its file and its last call
    vendor                \* a PushoverNotifier on its own and the vendor client's calls

vars == <<config, client, notifiers, recentNotifications, invocations, sendLog,
          now, nextCleanupAt, isSetup, session, configFile, pushoverModule,
          pluginState, store, vendor>>

\* what is looked at on its own, apart from the one session above
unitVars == <<pluginState, store, vendor>>

\* what an operation of the NotificationManager leaves alone
sessionVars == <<session, configFile, pushoverModule, pluginState, store, vendor>>

(***************************************************************************)
(* Bounds of the model.                                                    *)
(***************************************************************************)
MaxInvocations == 2
MaxEpochs == 1
MaxFilterInvocations == 1
MaxFanoutInvocations == 2
MaxCalls == 2
MaxEvents == 1
MaxRegistryOps == 5
MaxSends == 2
MaxFormatInvocations == 2
MaxHostOps == 5
MaxRestarts == 1
MaxOutcomeInvocations == 2

(***************************************************************************)
(* Program constants.                                                      *)
(***************************************************************************)
CleanupIntervalMs == 60000
DedupPrefixLen == 50

(***************************************************************************)
(* String helpers.                                                         *)
(***************************************************************************)
UpperChars == <<"A","B","C","D","E","F","G","H","I","J","K","L","M",
                "N","O","P","Q","R","S","T","U","V","W","X","Y","Z">>
LowerChars == <<"a","b","c","d","e","f","g","h","i","j","k","l","m",
                "n","o","p","q","r","s","t","u","v","w","x","y","z">>

ToLowerChar(c) ==
    IF \E i \in 1..26 : UpperChars[i] = c
    THEN LowerChars[CHOOSE i \in 1..26 : UpperChars[i] = c]
    ELSE c

\* String.prototype.toLowerCase
ToLowerCase(s) == [i \in 1..Len(s) |-> ToLowerChar(s[i])]

\* String.prototype.includes
StrIncludes(hay, needle) ==
    \E i \in 0..(Len(hay) - Len(needle)) :
        SubSeq(hay, i + 1, i + Len(needle)) = needle

\* Array.prototype.includes (strict equality of the elements)
ArrIncludes(arr, x) == \E i \in 1..Len(arr) : arr[i] = x

\* String.prototype.substring(from, to), 0-based, end exclusive
Substring(s, from, to) ==
    SubSeq(s, from + 1, IF to < Len(s) THEN to ELSE Len(s))

\* String.prototype.startsWith
StartsWith(s, prefix) ==
    /\ Len(prefix) <= Len(s)
    /\ SubSeq(s, 1, Len(prefix)) = prefix

Rep(c, n) == [i \in 1..n |-> c]

Range(f) == {f[i] : i \in DOMAIN f}


(***************************************************************************)
(* The inputs: strings the messages and configurations are built from.     *)
(***************************************************************************)
Dash == <<"-">>
Hash == <<"#">>

NetName == <<"n","e","t">>
ChanA == <<"#","a">>
ChanB == <<"#","b">>
NickC == <<"c">>
NameAl == <<"A","l">>
KwUp == <<"U","p">>
KwZz == <<"z","z">>

BodyHiAL == <<"h","i"," ","A","L">>         \* mentions Al, other case
BodyUP == <<"U","P","!">>                    \* holds the keyword Up, other case
BodyOk == <<"o","k">>                        \* neither
BodyAlUp == <<"a","l"," ","u","p">>          \* both
\* two 51-character bodies that mention Al and differ in the 51st character only
BodyLongA == <<"a","l">> \o Rep("x", DedupPrefixLen - 2) \o <<"a">>
BodyLongB == <<"a","l">> \o Rep("x", DedupPrefixLen - 2) \o <<"b">>

Msg(type, channel, nick, body) ==
    [type |-> type, network |-> NetName, channel |-> channel, nick |-> nick,
     message |-> body]

Filters(onlyWhenAway, highlights, keywords, whitelist, blacklist) ==
    [onlyWhenAway |-> onlyWhenAway, highlights |-> highlights, keywords |-> keywords,
     channels |-> [whitelist |-> whitelist, blacklist |-> blacklist]]

\* configurations and messages of the filter specification
FilterConfigs ==
    { [filters |-> Filters(a, h, k, w, b)] :
        a \in BOOLEAN, h \in BOOLEAN,
        k \in {<<>>, <<KwUp>>, <<KwZz, KwUp>>},
        w \in {<<>>, <<ChanA>>},
        b \in {<<>>, <<ChanA>>, <<ChanB>>} }
FilterClients == { [name |-> NameAl, away |-> a] : a \in BOOLEAN }
FilterMessages ==
    { Msg("privmsg", c, NickC, b) :
        c \in {ChanA, ChanB}, b \in {BodyHiAL, BodyUP, BodyOk, BodyAlUp} }

\* configurations and messages of the router specification
RouterConfigs ==
    { [filters |-> Filters(FALSE, TRUE, <<>>, <<>>, <<>>)] }
RouterClients == { [name |-> NameAl, away |-> FALSE] }
RouterMessages ==
    { Msg("privmsg", ChanA, NickC, b) :
        b \in {BodyHiAL, BodyLongA, BodyLongB} }

NotifierNames == <<"pushover", "mock">>

(***************************************************************************)
(* The configuration file and the notifiers built from it.                 *)
(* A credential is modelled by a string of the given length: the           *)
(* validators look at nothing but the type and the length.                 *)
(***************************************************************************)
PushoverKeyLen == 30
Credential(n) == Rep("k", n)

\* services.pushover as a user may write it into the file
PushoverServices ==
    { [enabled |-> TRUE, userKey |-> Credential(kt[1]), apiToken |-> Credential(kt[2]),
       priority |-> 0, sound |-> <<"p">>] :
        kt \in {<<PushoverKeyLen, PushoverKeyLen>>, <<0, PushoverKeyLen>>,
                <<PushoverKeyLen, 5>>} }

\* a services.example entry that passes the validators of notifiers/example.js
ExampleService ==
    [enabled |-> TRUE, apiKey |-> Credential(10), apiToken |-> Credential(20)]

\* registerVariables of notifiers/example.js: the required fields validate
ExampleValidates(cfg) == Len(cfg.apiKey) >= 10 /\ Len(cfg.apiToken) >= 20

ServiceNames == {"pushover", "example"}

\* the services maps of the configuration files considered
ServiceMaps ==
    { [n \in names |-> IF n = "pushover" THEN p ELSE ExampleService] :
        names \in SUBSET ServiceNames, p \in PushoverServices }

\* the filters every configuration file considered carries
FileFilters == Filters(FALSE, TRUE, <<>>, <<>>, <<>>)

ConfigFiles == { [services |-> sv, filters |-> FileFilters] : sv \in ServiceMaps }

\* validateConfig on services.pushover: the four known fields are kept, every
\* other field (enabled among them) is dropped
ValidatePushover(pushover) ==
    [userKey |-> pushover.userKey, apiToken |-> pushover.apiToken,
     priority |-> pushover.priority, sound |-> pushover.sound]

\* ConfigManager.load: the file's content after validateConfig
Load(file) ==
    [services |-> [n \in DOMAIN file.services |->
                      IF n = "pushover" THEN ValidatePushover(file.services[n])
                      ELSE file.services[n]],
     filters |-> file.filters]

\* registerVariables of the pushover notifier: every validate function holds
ValidateWithLogging(cfg) ==
    /\ Len(cfg.userKey) = PushoverKeyLen
    /\ Len(cfg.apiToken) = PushoverKeyLen
    /\ cfg.priority \in -2..2
    /\ Len(cfg.sound) > 0

\* the constructor of PushoverNotifier: it never throws, and _isSetup becomes
\* true when config.enabled is truthy and the configuration validates
PushoverIsSetup(cfg) ==
    /\ "enabled" \in DOMAIN cfg
    /\ cfg.enabled
    /\ ValidateWithLogging(cfg)

\* The source holds two versions of lib/notifiers/pushover.js.  The older
\* one validates in its constructor and throws on a failure; the newer one
\* never throws and stays in metadata mode.
PushoverModules == {"throwing", "dualMode"}

\* validate() of the older version: both credentials are non-empty; another
\* length than 30 is only warned about
ValidateNonEmpty(cfg) == Len(cfg.userKey) > 0 /\ Len(cfg.apiToken) > 0

\* new PushoverNotifier(config, logger) returns a notifier
PushoverConstructs(module, cfg) ==
    module = "dualMode" \/ ValidateNonEmpty(cfg)

\* the notifier it returns has a vendor client
PushoverReady(module, cfg) ==
    IF module = "dualMode" THEN PushoverIsSetup(cfg) ELSE ValidateNonEmpty(cfg)

\* initializeNotifiers: only services.pushover is looked at; a constructor
\* that throws leaves the map empty
InitializeNotifiers(module, services) ==
    IF "pushover" \in DOMAIN services /\ PushoverConstructs(module, services["pushover"])
    THEN <<"pushover">>
    ELSE <<>>

\* the notifiers of the map that are in ready mode
ReadyNotifiers(module, services) ==
    { n \in Range(InitializeNotifiers(module, services)) :
        PushoverReady(module, services[n]) }

\* getPluginState: the entry created on first use
NewSession ==
    [enabled |-> FALSE,            \* state.enabled
     notificationManager |-> 0,    \* 0 for null, else the number of the manager
     listenersSetup |-> FALSE,     \* state.listenersSetup
     listeners |-> 0,              \* listeners per event kind on network.irc
     calls |-> 0,                  \* enable and disable calls made so far
     command |-> "none",           \* the last of them
     success |-> FALSE,            \* the success field of its result
     dropped |-> 0]                \* events handleIrcMessage returned early on

(***************************************************************************)
(* NotificationManager.shouldNotify                                        *)
(***************************************************************************)
\* the channel filters without the whitelist check
ChannelRejectedBlacklistOnly(messageData, filters) ==
    /\ Len(filters.channels.blacklist) > 0
    /\ ArrIncludes(filters.channels.blacklist, messageData.channel)

\* the channel filters without the blacklist check
ChannelRejectedWhitelistOnly(messageData, filters) ==
    /\ Len(filters.channels.whitelist) > 0
    /\ ~ArrIncludes(filters.channels.whitelist, messageData.channel)

\* the channel filters with the blacklist consulted only when no whitelist is set
ChannelRejectedWhitelistOverrides(messageData, filters) ==
    IF Len(filters.channels.whitelist) > 0
    THEN ~ArrIncludes(filters.channels.whitelist, messageData.channel)
    ELSE /\ Len(filters.channels.blacklist) > 0
         /\ ArrIncludes(filters.channels.blacklist, messageData.channel)

\* lines 89-104: the channel filters
ChannelRejected(messageData, filters) ==
    \/ /\ Len(filters.channels.whitelist) > 0
       /\ ~ArrIncludes(filters.channels.whitelist, messageData.channel)
    \/ /\ Len(filters.channels.blacklist) > 0
       /\ ArrIncludes(filters.channels.blacklist, messageData.channel)

\* matchedKeyword without the toLowerCase calls
MatchedKeywordCaseSensitive(messageData, filters) ==
    /\ Len(filters.keywords) > 0
    /\ \E i \in 1..Len(filters.keywords) :
           StrIncludes(messageData.message, filters.keywords[i])

\* lines 106-116: matchedKeyword
MatchedKeyword(messageData, filters) ==
    /\ Len(filters.keywords) > 0
    /\ \E i \in 1..Len(filters.keywords) :
           StrIncludes(ToLowerCase(messageData.message),
                       ToLowerCase(filters.keywords[i]))

\* lines 118-126: isHighlight
IsHighlight(messageData, cl, filters) ==
    /\ filters.highlights
    /\ cl.name # <<>>
    /\ StrIncludes(ToLowerCase(messageData.message), ToLowerCase(cl.name))

\* the decision without the notify-everything default
DecisionNoDefault(messageData, cl, filters) ==
    \/ MatchedKeyword(messageData, filters)
    \/ (filters.highlights /\ IsHighlight(messageData, cl, filters))

\* lines 132-140: the decision
Decision(messageData, cl, filters) ==
    LET hasKeywords == Len(filters.keywords) > 0
        hasHighlights == filters.highlights
    IN  IF ~hasKeywords /\ ~hasHighlights
        THEN TRUE
        ELSE MatchedKeyword(messageData, filters)
             \/ (hasHighlights /\ IsHighlight(messageData, cl, filters))

\* The body of `if (filters.onlyWhenAway)` (lines 83-87) is empty: cl.away is
\* never read, so the away state has no part in the result.
ShouldNotify(messageData, cl, filters) ==
    IF ChannelRejected(messageData, filters)
    THEN FALSE
    ELSE Decision(messageData, cl, filters)

(***************************************************************************)
(* NotificationManager.formatNotification, getDeduplicationKey             *)
(***************************************************************************)
\* a title that names the channel of every message
FormatNotificationAnyChannel(messageData) ==
    [title |-> messageData.network \o <<" ","-"," ">> \o messageData.channel,
     message |-> IF messageData.type = "action"
                 THEN <<"*"," ">> \o messageData.nick \o <<" ">> \o messageData.message
                 ELSE <<"<">> \o messageData.nick \o <<">"," ">> \o messageData.message,
     timestamp |-> messageData.timestamp]

FormatNotification(messageData) ==
    [title |-> IF messageData.channel # <<>> /\ StartsWith(messageData.channel, Hash)
               THEN messageData.network \o <<" ","-"," ">> \o messageData.channel
               ELSE messageData.network,
     message |-> IF messageData.type = "action"
                 THEN <<"*"," ">> \o messageData.nick \o <<" ">> \o messageData.message
                 ELSE <<"<">> \o messageData.nick \o <<">"," ">> \o messageData.message,
     timestamp |-> messageData.timestamp]

\* the key without the message text
GetDeduplicationKeyNoBody(messageData) ==
    messageData.network \o Dash \o messageData.channel \o Dash \o messageData.nick

\* the key with the whole message text
GetDeduplicationKeyWholeBody(messageData) ==
    messageData.network \o Dash \o messageData.channel \o Dash
        \o messageData.nick \o Dash \o messageData.message

GetDeduplicationKey(messageData) ==
    LET msgHash == Substring(messageData.message, 0, DedupPrefixLen)
    IN  messageData.network \o Dash \o messageData.channel \o Dash
        \o messageData.nick \o Dash \o msgHash


(***************************************************************************)
(* The state after `new NotificationManager(config, logger)`, with the     *)
(* notifiers in place: an empty dedup cache and the cleanup timer armed.   *)
(***************************************************************************)
\* client.id and network.uuid as the host makes them: identifiers of one
\* fixed length that hold the "-" of the key themselves
ClientIds == {<<"c","-","1">>, <<"c","-","2">>}
NetworkUuids == {<<"n","-","a">>, <<"n","-","b">>}

\* the client-network pairs considered: one user on two networks, and a
\* second user on one of them
Pairs ==
    {<<c, n>> \in ClientIds \X NetworkUuids :
        c = <<"c","-","1">> \/ n = <<"n","-","a">>}

\* the Map of index.js before any command: no entry, no object handed out
EmptyRegistry ==
    [map |-> <<>>,                      \* key -> entry
     handles |-> [p \in Pairs |-> {}],   \* the objects getPluginState returned
     created |-> 0,                     \* entries created so far
     managers |-> 0,                    \* NotificationManagers built so far
     ops |-> 0]                         \* calls and events so far
NoStore == [op |-> "none"]
NoVendor == [op |-> "none"]

InitRouter ==
    /\ pluginState = EmptyRegistry
    /\ store = NoStore
    /\ vendor = NoVendor
    /\ recentNotifications = {}
    /\ invocations = <<>>
    /\ sendLog = <<>>
    /\ now = 0
    /\ nextCleanupAt = CleanupIntervalMs

Init ==
    /\ config \in RouterConfigs
    /\ client \in RouterClients
    /\ notifiers = SubSeq(NotifierNames, 1, 1)
    /\ isSetup = Range(notifiers)
    /\ session = NewSession
    /\ configFile \in {f \in ConfigFiles : DOMAIN f.services = {}}
    /\ pushoverModule = "dualMode"
    /\ InitRouter

InitFilter ==
    /\ config \in FilterConfigs
    /\ client \in FilterClients
    /\ notifiers = SubSeq(NotifierNames, 1, 1)
    /\ isSetup = Range(notifiers)
    /\ session = NewSession
    /\ configFile \in {f \in ConfigFiles : DOMAIN f.services = {}}
    /\ pushoverModule = "dualMode"
    /\ InitRouter

\* how many times the cleanup timer has fired
Epoch == (nextCleanupAt \div CleanupIntervalMs) - 1

\* the processMessage calls that are suspended at `await Promise.all(promises)`
Awaiting ==
    {i \in 1..Len(invocations) :
        invocations[i].result = "dispatched" /\ invocations[i].state = "awaiting"}

\* messageData as handleIrcMessage builds it: the event's fields and new Date()
MessageData(m, t) ==
    [type |-> m.type, network |-> m.network, channel |-> m.channel,
     nick |-> m.nick, message |-> m.message, timestamp |-> t]

\* the record kept of one processMessage call
Invocation(messageData, result, pending) ==
    [msg |-> messageData, epoch |-> Epoch,
     result |-> result, pending |-> pending, failed |-> {},
     state |-> IF result = "dispatched" THEN "awaiting" ELSE "resolved"]

\* a call that does not insert the key
AddRecentNever(recent, dedupKey) == recent

\* line 57: this.recentNotifications.add(dedupKey)
AddRecent(recent, dedupKey) == recent \cup {dedupKey}

\* a send loop that stops after the first entry
StartSendsFirstOnly(notification, names, inv) ==
    [i \in 1..(IF Len(names) > 0 THEN 1 ELSE 0) |->
        [notifier |-> names[i], notification |-> notification, inv |-> inv]]

\* lines 63-71: one notifier.send(notification) per entry of this.notifiers,
\* in the order of Object.entries
StartSends(notification, names, inv) ==
    [i \in 1..Len(names) |->
        [notifier |-> names[i], notification |-> notification, inv |-> inv]]

\* the sends of a call put in front of those of the earlier calls
LogSendsInFront(log, sends) == sends \o log

\* the send calls of one processMessage call follow, in loop order, those
\* of the calls made before it
LogSends(log, sends) == log \o sends

\* processMessage with the dedup check and the insertion of the key made
\* before the filters are evaluated
ProcessMessageKeyFirst(m) ==
    LET messageData == MessageData(m, now)
        dedupKey == GetDeduplicationKey(messageData)
        id == Len(invocations) + 1
    IN  /\ UNCHANGED <<config, client, notifiers, now, nextCleanupAt, isSetup>>
        /\ UNCHANGED sessionVars
        /\ IF dedupKey \in recentNotifications
           THEN /\ invocations' = Append(invocations,
                                         Invocation(messageData, "duplicate", {}))
                /\ UNCHANGED <<recentNotifications, sendLog>>
           ELSE IF ~ShouldNotify(messageData, client, config.filters)
           THEN /\ recentNotifications' = AddRecent(recentNotifications, dedupKey)
                /\ invocations' = Append(invocations,
                                         Invocation(messageData, "filtered", {}))
                /\ UNCHANGED sendLog
           ELSE /\ recentNotifications' = AddRecent(recentNotifications, dedupKey)
                /\ sendLog' = sendLog \o StartSends(FormatNotification(messageData),
                                                    notifiers, id)
                /\ invocations' = Append(invocations,
                                         Invocation(messageData, "dispatched",
                                                    Range(notifiers)))

(***************************************************************************)
(* processMessage up to its await: the filters, the dedup check, the       *)
(* insertion of the key and the start of every send run in one step.       *)
(***************************************************************************)
ProcessMessage(m) ==
    LET messageData == MessageData(m, now)
        dedupKey == GetDeduplicationKey(messageData)
        id == Len(invocations) + 1
    IN  /\ UNCHANGED <<config, client, notifiers, now, nextCleanupAt, isSetup>>
        /\ UNCHANGED sessionVars
        /\ IF ~ShouldNotify(messageData, client, config.filters)
           THEN /\ invocations' = Append(invocations,
                                         Invocation(messageData, "filtered", {}))
                /\ UNCHANGED <<recentNotifications, sendLog>>
           ELSE IF dedupKey \in recentNotifications
           THEN /\ invocations' = Append(invocations,
                                         Invocation(messageData, "duplicate", {}))
                /\ UNCHANGED <<recentNotifications, sendLog>>
           ELSE /\ recentNotifications' = AddRecent(recentNotifications, dedupKey)
                /\ sendLog' = LogSends(sendLog,
                                       StartSends(FormatNotification(messageData),
                                                  notifiers, id))
                /\ invocations' = Append(invocations,
                       [Invocation(messageData, "dispatched",
                                   Range(notifiers) \cap isSetup)
                           EXCEPT !.failed = Range(notifiers) \ isSetup])

\* a send loop without the .catch: a rejection rejects processMessage and
\* the other sends are given up
SendSettlesUncaught(i, name, ok) ==
    /\ i \in 1..Len(invocations)
    /\ invocations[i].result = "dispatched"
    /\ name \in invocations[i].pending
    /\ invocations' = [invocations EXCEPT
           ![i].pending = IF ok THEN @ \ {name} ELSE {},
           ![i].failed = IF ok THEN @ ELSE @ \cup {name},
           ![i].state = IF ok THEN @ ELSE "rejected"]
    /\ UNCHANGED <<config, client, notifiers, recentNotifications, sendLog,
                   now, nextCleanupAt, isSetup>>
    /\ UNCHANGED sessionVars

\* One send settles: the vendor callback reports success or an error; the
\* rejection is caught and logged by the .catch of lines 67-69.
SendSettles(i, name, ok) ==
    /\ i \in 1..Len(invocations)
    /\ invocations[i].result = "dispatched"
    /\ name \in invocations[i].pending
    /\ invocations' = [invocations EXCEPT
           ![i].pending = @ \ {name},
           ![i].failed = IF ok THEN @ ELSE @ \cup {name}]
    /\ UNCHANGED <<config, client, notifiers, recentNotifications, sendLog,
                   now, nextCleanupAt, isSetup>>
    /\ UNCHANGED sessionVars

\* lines 73-74: Promise.all resolves once every send has settled
ProcessMessageResumes(i) ==
    /\ i \in Awaiting
    /\ invocations[i].pending = {}
    /\ invocations' = [invocations EXCEPT ![i].state = "resolved"]
    /\ UNCHANGED <<config, client, notifiers, recentNotifications, sendLog,
                   now, nextCleanupAt, isSetup>>
    /\ UNCHANGED sessionVars

\* a cleanup that leaves the set as it is
ClearRecentKeepsAll(recent) == recent

\* cleanupRecentNotifications: this.recentNotifications.clear()
ClearRecent(recent) == {}

\* the setInterval callback of line 20, due every 60000 ms
CleanupTimerFires ==
    /\ now = nextCleanupAt
    /\ recentNotifications' = ClearRecent(recentNotifications)
    /\ nextCleanupAt' = nextCleanupAt + CleanupIntervalMs
    /\ UNCHANGED <<config, client, notifiers, invocations, sendLog, now, isSetup>>
    /\ UNCHANGED sessionVars

\* Time passes up to the next instant a message is let in at: one second
\* before the cleanup timer is due, or the moment it is due.  A due timer
\* fires before time moves on.
TickStep ==
    IF now < nextCleanupAt - 1000 THEN nextCleanupAt - 1000 - now ELSE 1000

Tick ==
    /\ now < nextCleanupAt
    /\ now + TickStep <= MaxEpochs * CleanupIntervalMs
    /\ now' = now + TickStep
    /\ UNCHANGED <<config, client, notifiers, recentNotifications, invocations,
                   sendLog, nextCleanupAt, isSetup>>
    /\ UNCHANGED sessionVars

\* handleIrcMessage hands an incoming message to processMessage
MessageArrives ==
    \E m \in RouterMessages :
        Len(invocations) < MaxInvocations /\ ProcessMessage(m)

Next ==
    \/ MessageArrives
    \/ \E i \in 1..MaxInvocations, n \in Range(NotifierNames), ok \in BOOLEAN :
          SendSettles(i, n, ok)
    \/ \E i \in 1..MaxInvocations : ProcessMessageResumes(i)
    \/ CleanupTimerFires
    \/ Tick

Spec == Init /\ [][Next]_vars

\* The filter pipeline on its own: no time passes, so the timer is never due.
FilterMessageArrives ==
    \E m \in FilterMessages :
        Len(invocations) < MaxFilterInvocations /\ ProcessMessage(m)

NextFilter ==
    \/ FilterMessageArrives
    \/ \E i \in 1..MaxFilterInvocations, n \in Range(NotifierNames), ok \in BOOLEAN :
          SendSettles(i, n, ok)
    \/ \E i \in 1..MaxFilterInvocations : ProcessMessageResumes(i)

SpecFilter == InitFilter /\ [][NextFilter]_vars

(***************************************************************************)
(* The fan-out on its own: two notifiers in ready mode, no time passes.    *)
(***************************************************************************)
BodyLongUp == Rep("x", DedupPrefixLen) \o <<"u","p">>
BodyLongOk == Rep("x", DedupPrefixLen) \o <<"o","k">>

FanoutConfigs ==
    { [filters |-> Filters(FALSE, TRUE, <<>>, <<>>, <<>>)],
      [filters |-> Filters(FALSE, FALSE, <<KwUp>>, <<>>, <<>>)],
      [filters |-> Filters(FALSE, TRUE, <<>>, <<ChanB>>, <<>>)] }
FanoutMessages ==
    { Msg("privmsg", ChanA, NickC, b) :
        b \in {BodyHiAL, BodyAlUp, BodyLongUp, BodyLongOk} }

InitFanout ==
    /\ config \in FanoutConfigs
    /\ client \in RouterClients
    /\ notifiers = NotifierNames
    /\ isSetup = Range(notifiers)
    /\ session = NewSession
    /\ configFile \in {f \in ConfigFiles : DOMAIN f.services = {}}
    /\ pushoverModule = "dualMode"
    /\ InitRouter

TestTitle ==
    <<"T","h","e","L","o","u","n","g","e"," ","E","x","t","e",
       "r","n","a","l"," ","N","o","t","i","f","y">>
TestMessage ==
    <<"T","e","s","t"," ","n","o","t","i","f","i","c","a","t",
       "i","o","n"," ","-"," ","y","o","u","r"," ","n","o","t",
       "i","f","i","c","a","t","i","o","n","s"," ","a","r","e",
       " ","w","o","r","k","i","n","g","!">>

\* lines 193-197: the fixed notification of sendTestNotification
TestNotification(t) ==
    [title |-> TestTitle, message |-> TestMessage, timestamp |-> t]

\* a wait that no rejection ends: every promise with its own .catch
AllSettledState(failed) == "awaiting"

\* Promise.all of line 205: it rejects as soon as one of the promises rejects
PromiseAllState(failed) == IF failed = {} THEN "awaiting" ELSE "rejected"

\* sendTestNotification routed through the dedup cache
SendTestNotificationDeduplicated ==
    LET notification == TestNotification(now)
        id == Len(invocations) + 1
        suppressed == TestTitle \in recentNotifications
    IN  /\ recentNotifications' = AddRecent(recentNotifications, TestTitle)
        /\ sendLog' = IF suppressed THEN sendLog
                      ELSE sendLog \o StartSends(notification, notifiers, id)
        /\ invocations' = Append(invocations,
               [msg |-> notification, epoch |-> Epoch, result |-> "test",
                pending |-> IF suppressed THEN {} ELSE Range(notifiers),
                failed |-> {}, state |-> "awaiting"])
        /\ UNCHANGED <<config, client, notifiers, now, nextCleanupAt, isSetup>>
        /\ UNCHANGED sessionVars

(***************************************************************************)
(* sendTestNotification up to its await: one send per notifier, with no    *)
(* .catch on any of them, and no look at the filters or the dedup cache.   *)
(***************************************************************************)
SendTestNotification ==
    LET notification == TestNotification(now)
        id == Len(invocations) + 1
        failed == Range(notifiers) \ isSetup
    IN  /\ sendLog' = sendLog \o StartSends(notification, notifiers, id)
        /\ invocations' = Append(invocations,
               [msg |-> notification, epoch |-> Epoch, result |-> "test",
                pending |-> Range(notifiers) \cap isSetup, failed |-> failed,
                state |-> PromiseAllState(failed)])
        /\ UNCHANGED <<config, client, notifiers, recentNotifications, now,
                       nextCleanupAt, isSetup>>
        /\ UNCHANGED sessionVars

\* One send of a test notification settles; a rejection rejects the promise
\* of sendTestNotification at once, while the other sends go on.
TestSendSettles(i, name, ok) ==
    /\ i \in 1..Len(invocations)
    /\ invocations[i].result = "test"
    /\ name \in invocations[i].pending
    /\ LET failed == IF ok THEN invocations[i].failed
                     ELSE invocations[i].failed \cup {name}
       IN  invocations' = [invocations EXCEPT
               ![i].pending = @ \ {name},
               ![i].failed = failed,
               ![i].state = IF @ = "awaiting" THEN PromiseAllState(failed) ELSE @]
    /\ UNCHANGED <<config, client, notifiers, recentNotifications, sendLog,
                   now, nextCleanupAt, isSetup>>
    /\ UNCHANGED sessionVars

\* line 205: Promise.all resolves once every send has resolved
SendTestNotificationResumes(i) ==
    /\ i \in 1..Len(invocations)
    /\ invocations[i].result = "test"
    /\ invocations[i].state = "awaiting"
    /\ invocations[i].pending = {}
    /\ invocations' = [invocations EXCEPT ![i].state = "resolved"]
    /\ UNCHANGED <<config, client, notifiers, recentNotifications, sendLog,
                   now, nextCleanupAt, isSetup>>
    /\ UNCHANGED sessionVars

FanoutMessageArrives ==
    \E m \in FanoutMessages :
        Len(invocations) < MaxFanoutInvocations /\ ProcessMessage(m)

TestCommand ==
    Len(invocations) < MaxFanoutInvocations /\ SendTestNotification

NextFanout ==
    \/ FanoutMessageArrives
    \/ TestCommand
    \/ \E i \in 1..MaxFanoutInvocations, n \in Range(NotifierNames), ok \in BOOLEAN :
          SendSettles(i, n, ok)
    \/ \E i \in 1..MaxFanoutInvocations : ProcessMessageResumes(i)
    \/ \E i \in 1..MaxFanoutInvocations, n \in Range(NotifierNames), ok \in BOOLEAN :
          TestSendSettles(i, n, ok)
    \/ \E i \in 1..MaxFanoutInvocations : SendTestNotificationResumes(i)

SpecFanout == InitFanout /\ [][NextFanout]_vars

(***************************************************************************)
(* One client-network pair of index.js: enable, disable, the IRC event     *)
(* listeners and the configuration file.  The variables of the             *)
(* NotificationManager are those of state.notificationManager.             *)
(***************************************************************************)
SessionMessages ==
    { Msg(t, ChanA, NickC, BodyHiAL) : t \in {"privmsg", "action", "notice"} }

InitSession ==
    /\ config = [filters |-> FileFilters]
    /\ client \in RouterClients
    /\ notifiers = <<>>
    /\ isSetup = {}
    /\ session = NewSession
    /\ configFile \in ConfigFiles
    /\ pushoverModule \in PushoverModules
    /\ InitRouter

\* the result of a call and the count of calls
Returned(st, command, success) ==
    [st EXCEPT !.calls = @ + 1, !.command = command, !.success = success]

\* an enable that builds a manager whatever the services map holds
EnableRefusedWithoutServices(services) == FALSE

\* lines 129-134: !config || !config.services || no key in config.services
EnableRefused(services) == DOMAIN services = {}

\* setupMessageMonitoring without the listenersSetup test
SetupMessageMonitoringUnguarded(st) ==
    [st EXCEPT !.listeners = @ + 1, !.listenersSetup = TRUE]

\* setupMessageMonitoring: return if state.listenersSetup; else one listener
\* for each of privmsg, action and notice, and listenersSetup = true
SetupMessageMonitoring(st) ==
    IF st.listenersSetup
    THEN st
    ELSE [st EXCEPT !.listeners = @ + 1, !.listenersSetup = TRUE]

(***************************************************************************)
(* enableNotifications: load the file; refuse when no service is           *)
(* configured; else build a new NotificationManager (new notifiers, an     *)
(* empty dedup cache, a new cleanup timer), install the listeners once     *)
(* and set enabled.                                                        *)
(***************************************************************************)
EnableNotifications ==
    LET loaded == Load(configFile)
    IN  /\ session.calls < MaxCalls
        /\ IF EnableRefused(loaded.services)
           THEN /\ session' = Returned(session, "enable", FALSE)
                /\ UNCHANGED <<config, notifiers, isSetup, recentNotifications,
                               nextCleanupAt>>
           ELSE /\ config' = [filters |-> loaded.filters]
                /\ notifiers' = InitializeNotifiers(pushoverModule, loaded.services)
                /\ isSetup' = ReadyNotifiers(pushoverModule, loaded.services)
                /\ recentNotifications' = {}
                /\ nextCleanupAt' = now + CleanupIntervalMs
                /\ session' = Returned(
                       [SetupMessageMonitoring(
                            [session EXCEPT !.notificationManager = @ + 1])
                           EXCEPT !.enabled = TRUE],
                       "enable", TRUE)
        /\ UNCHANGED <<client, invocations, sendLog, now, configFile, pushoverModule>>
        /\ UNCHANGED unitVars

\* a disable that drops the manager as well
DisabledDropsManager(st) ==
    [st EXCEPT !.enabled = FALSE, !.notificationManager = 0]

\* lines 157-158: state.enabled = false
Disabled(st) == [st EXCEPT !.enabled = FALSE]

\* a disable that gives up the sends in flight
DisableNotificationsCancels ==
    /\ session.calls < MaxCalls
    /\ session' = Returned(Disabled(session), "disable", TRUE)
    /\ invocations' = [i \in 1..Len(invocations) |->
                          [invocations[i] EXCEPT !.pending = {},
                                                 !.failed = @ \cup invocations[i].pending]]
    /\ UNCHANGED <<config, client, notifiers, recentNotifications,
                   sendLog, now, nextCleanupAt, isSetup, configFile, pushoverModule>>
    /\ UNCHANGED unitVars

\* disableNotifications
DisableNotifications ==
    /\ session.calls < MaxCalls
    /\ session' = Returned(Disabled(session), "disable", TRUE)
    /\ UNCHANGED <<config, client, notifiers, recentNotifications, invocations,
                   sendLog, now, nextCleanupAt, isSetup, configFile, pushoverModule>>
    /\ UNCHANGED unitVars

\* a guard that looks at the manager only
EventDroppedIgnoringEnabled(st) == st.notificationManager = 0

\* line 95: !state.enabled || !state.notificationManager
EventDropped(st) == ~st.enabled \/ st.notificationManager = 0

\* An IRC event reaches the listener installed by setupMessageMonitoring,
\* which calls handleIrcMessage.
HandleIrcMessage(m) ==
    /\ session.listeners > 0
    /\ session.dropped + Len(invocations) < MaxEvents
    /\ IF EventDropped(session)
       THEN /\ session' = [session EXCEPT !.dropped = @ + 1]
            /\ UNCHANGED <<config, client, notifiers, recentNotifications,
                           invocations, sendLog, now, nextCleanupAt, isSetup,
                           configFile, pushoverModule>>
            /\ UNCHANGED unitVars
       ELSE ProcessMessage(m)

\* the user edits the configuration file
ConfigFileEdited ==
    /\ configFile' \in ConfigFiles \ {configFile}
    /\ UNCHANGED <<config, client, notifiers, recentNotifications, invocations,
                   sendLog, now, nextCleanupAt, isSetup, session, pushoverModule>>
    /\ UNCHANGED unitVars

NextSession ==
    \/ EnableNotifications
    \/ DisableNotifications
    \/ \E m \in SessionMessages : HandleIrcMessage(m)
    \/ ConfigFileEdited
    \/ \E i \in 1..MaxEvents, n \in Range(NotifierNames), ok \in BOOLEAN :
          SendSettles(i, n, ok)
    \/ \E i \in 1..MaxEvents : ProcessMessageResumes(i)

SpecSession == InitSession /\ [][NextSession]_vars


(***************************************************************************)
(* The pluginState Map of index.js with several client-network pairs.      *)
(* An entry holds the fields of the state object, the identity of that     *)
(* object, and of its NotificationManager the dedup cache and the results  *)
(* of the processMessage calls.  Both networks have the same name.         *)
(***************************************************************************)
\* a key that leaves the network out
PluginKeyClientOnly(c, n) == c

\* line 45: `${client.id}-${network.uuid}`
PluginKey(c, n) == c \o Dash \o n

\* lines 48-55: the object stored for a new key
NewEntry(obj, c, n) ==
    [obj |-> obj, client |-> c, network |-> n,
     enabled |-> FALSE, notificationManager |-> 0,
     listenersSetup |-> FALSE, listeners |-> 0,
     recent |-> {}, results |-> <<>>]

\* getPluginState: create the entry if the Map has none for the key, and
\* return the entry of the key
GetPluginState(reg, c, n) ==
    LET key == PluginKey(c, n)
        isNew == key \notin DOMAIN reg.map
        map == IF isNew
               THEN (key :> NewEntry(reg.created + 1, c, n)) @@ reg.map
               ELSE reg.map
    IN  [reg EXCEPT !.map = map,
                    !.created = IF isNew THEN @ + 1 ELSE @,
                    !.handles[<<c, n>>] = @ \cup {map[key].obj},
                    !.ops = @ + 1]

\* what a command or an event of one pair leaves alone
RegistryFrame ==
    UNCHANGED <<config, client, notifiers, recentNotifications, invocations,
                sendLog, now, nextCleanupAt, isSetup, session, configFile,
                pushoverModule, store, vendor>>

\* getStatus: getPluginState and a load of the configuration
RegistryGetStatus(c, n) ==
    /\ pluginState.ops < MaxRegistryOps
    /\ pluginState' = GetPluginState(pluginState, c, n)
    /\ RegistryFrame

\* enableNotifications on the entry of the pair
RegistryEnable(c, n) ==
    LET reg == GetPluginState(pluginState, c, n)
        key == PluginKey(c, n)
        loaded == Load(configFile)
    IN  /\ pluginState.ops < MaxRegistryOps
        /\ pluginState' =
              IF EnableRefused(loaded.services)
              THEN reg
              ELSE [reg EXCEPT
                      !.managers = @ + 1,
                      !.map[key] =
                          [SetupMessageMonitoring(
                               [@ EXCEPT !.notificationManager = reg.managers + 1,
                                         !.recent = {}])
                              EXCEPT !.enabled = TRUE]]
        /\ RegistryFrame

\* disableNotifications on the entry of the pair
RegistryDisable(c, n) ==
    LET reg == GetPluginState(pluginState, c, n)
        key == PluginKey(c, n)
    IN  /\ pluginState.ops < MaxRegistryOps
        /\ pluginState' = [reg EXCEPT !.map[key] = Disabled(@)]
        /\ RegistryFrame

\* processMessage of the manager of an entry, up to the send loop
EntryProcessMessage(entry, m) ==
    LET messageData == MessageData(m, now)
        dedupKey == GetDeduplicationKey(messageData)
    IN  IF ~ShouldNotify(messageData, client, config.filters)
        THEN [entry EXCEPT !.results = Append(@, "filtered")]
        ELSE IF dedupKey \in entry.recent
        THEN [entry EXCEPT !.results = Append(@, "duplicate")]
        ELSE [entry EXCEPT !.recent = AddRecent(@, dedupKey),
                           !.results = Append(@, "dispatched")]

\* an event handled with one dedup cache for all the entries
RegistryEventSharedCache(c, n, m) ==
    LET key == PluginKey(c, n)
        all == UNION {pluginState.map[k].recent : k \in DOMAIN pluginState.map}
    IN  /\ pluginState.ops < MaxRegistryOps
        /\ key \in DOMAIN pluginState.map
        /\ pluginState.map[key].listeners > 0
        /\ pluginState' =
              [pluginState EXCEPT
                  !.ops = @ + 1,
                  !.map[key] = IF EventDropped(@) THEN @
                               ELSE EntryProcessMessage([@ EXCEPT !.recent = all], m)]
        /\ RegistryFrame

\* an IRC event on the network of a pair whose listeners are installed:
\* handleIrcMessage with the state object the listeners were made for
RegistryEvent(c, n, m) ==
    LET key == PluginKey(c, n)
    IN  /\ pluginState.ops < MaxRegistryOps
        /\ key \in DOMAIN pluginState.map
        /\ pluginState.map[key].listeners > 0
        /\ pluginState' =
              [pluginState EXCEPT
                  !.ops = @ + 1,
                  !.map[key] = IF EventDropped(@) THEN @
                               ELSE EntryProcessMessage(@, m)]
        /\ RegistryFrame

\* the files considered: no service, or a pushover service that validates
RegistryConfigs ==
    {f \in ConfigFiles :
        \/ DOMAIN f.services = {}
        \/ /\ DOMAIN f.services = {"pushover"}
           /\ ValidateWithLogging(f.services["pushover"])}

RegistryMessage == Msg("privmsg", ChanA, NickC, BodyHiAL)

InitRegistry ==
    /\ config = [filters |-> FileFilters]
    /\ client \in RouterClients
    /\ notifiers = <<>>
    /\ isSetup = {}
    /\ session = NewSession
    /\ configFile \in RegistryConfigs
    /\ pushoverModule = "throwing"
    /\ InitRouter

NextRegistry ==
    \/ \E p \in Pairs : RegistryGetStatus(p[1], p[2])
    \/ \E p \in Pairs : RegistryEnable(p[1], p[2])
    \/ \E p \in Pairs : RegistryDisable(p[1], p[2])
    \/ \E p \in Pairs : RegistryEvent(p[1], p[2], RegistryMessage)

SpecRegistry == InitRegistry /\ [][NextRegistry]_vars

(***************************************************************************)
(* JavaScript values as typeof, Array.isArray and JSON see them.  A number *)
(* is counted in halves, so that 1.5 is a number that is not an integer;   *)
(* NaN is the number that JSON cannot write.                               *)
(***************************************************************************)
Undefined == [t |-> "undefined"]
Null == [t |-> "null"]
Bool(b) == [t |-> "boolean", v |-> b]
Str(s) == [t |-> "string", v |-> s]
Num(n) == [t |-> "number", nan |-> FALSE, halves |-> 2 * n]
Halves(h) == [t |-> "number", nan |-> FALSE, halves |-> h]
NaN == [t |-> "number", nan |-> TRUE, halves |-> 0]
Arr(s) == [t |-> "array", v |-> s]
\* an object literal: a property written as Undefined is left out
Obj(f) == [t |-> "object", v |-> [k \in {j \in DOMAIN f : f[j] # Undefined} |-> f[k]]]
EmptyObject == Obj(<<>>)

Typeof(x) == IF x.t \in {"array", "null"} THEN "object" ELSE x.t
IsArray(x) == x.t = "array"
IsInteger(x) == x.t = "number" /\ ~x.nan /\ x.halves % 2 = 0
\* the conversion to boolean of `||`, `!` and `if`
Truthy(x) ==
    CASE x.t \in {"undefined", "null"} -> FALSE
      [] x.t = "boolean" -> x.v
      [] x.t = "string" -> Len(x.v) > 0
      [] x.t = "number" -> ~x.nan /\ x.halves # 0
      [] OTHER -> TRUE
OrElse(x, d) == IF Truthy(x) THEN x ELSE d
\* o.k where o is not null or undefined: a primitive or an array has none
\* of the properties of a configuration
Get(o, k) == IF o.t = "object" /\ k \in DOMAIN o.v THEN o.v[k] ELSE Undefined
\* o.k = x
SetProperty(o, k, x) ==
    [t |-> "object", v |-> [j \in DOMAIN o.v \cup {k} |-> IF j = k THEN x ELSE o.v[j]]]
\* JSON.stringify: a property whose value is undefined is left out, an
\* undefined array element and NaN are written as null
RECURSIVE JSONStringify(_)
JSONStringify(x) ==
    CASE x.t = "object" ->
           [t |-> "object",
            v |-> [k \in {j \in DOMAIN x.v : x.v[j].t # "undefined"} |->
                       JSONStringify(x.v[k])]]
      [] x.t = "array" ->
           Arr([i \in 1..Len(x.v) |->
                   IF x.v[i].t = "undefined" THEN Null ELSE JSONStringify(x.v[i])])
      [] x.t = "number" /\ x.nan -> Null
      [] OTHER -> x
\* a file: missing, text that is not JSON, or a JSON document, held as the
\* value its text denotes
NoFile == [kind |-> "missing"]
CorruptFile == [kind |-> "corrupt"]
JSONFile(doc) == [kind |-> "json", doc |-> doc]
\* JSON.parse of the text of a JSON document
JSONParse(file) == file.doc

(***************************************************************************)
(* ConfigManager                                                          *)
(***************************************************************************)
DefaultFilters ==
    Obj([onlyWhenAway |-> Bool(TRUE),
         highlights |-> Bool(TRUE),
         keywords |-> Arr(<<>>),
         channels |-> Obj([whitelist |-> Arr(<<>>), blacklist |-> Arr(<<>>)])])
GetDefaultConfig ==
    Obj([enabled |-> Bool(FALSE), services |-> EmptyObject, filters |-> DefaultFilters])

\* lines 86-108: validated.filters is always truthy, so the block always runs
ValidateFilters(input) ==
    LET filters == OrElse(Get(input, "filters"), EmptyObject)
        channels == OrElse(Get(filters, "channels"), EmptyObject)
        boolOr(x, d) == IF Typeof(x) = "boolean" THEN x ELSE d
        arrayOr(x, d) == IF IsArray(x) THEN x ELSE d
    IN  Obj([onlyWhenAway |->
                 boolOr(Get(filters, "onlyWhenAway"), Get(DefaultFilters, "onlyWhenAway")),
             highlights |->
                 boolOr(Get(filters, "highlights"), Get(DefaultFilters, "highlights")),
             keywords |->
                 arrayOr(Get(filters, "keywords"), Get(DefaultFilters, "keywords")),
             channels |->
                 Obj([whitelist |-> arrayOr(Get(channels, "whitelist"), Arr(<<>>)),
                      blacklist |-> arrayOr(Get(channels, "blacklist"), Arr(<<>>))])])

\* lines 111-123
ValidatePriority(priority) ==
    IF Typeof(priority) = "number" THEN priority ELSE Num(0)
ValidateServices(services) ==
    IF Truthy(services) /\ Truthy(Get(services, "pushover"))
    THEN LET pushover == Get(services, "pushover")
         IN  SetProperty(services, "pushover",
                 Obj([userKey |-> OrElse(Get(pushover, "userKey"), Str(<<>>)),
                      apiToken |-> OrElse(Get(pushover, "apiToken"), Str(<<>>)),
                      priority |-> ValidatePriority(Get(pushover, "priority")),
                      sound |-> OrElse(Get(pushover, "sound"),
                                       Str(<<"p","u","s","h","o","v","e","r">>))]))
    ELSE services

\* lines 80-84
TopLevelServices(input) == OrElse(Get(input, "services"), EmptyObject)

\* validateConfig of a value that is not null or undefined
ValidateConfig(input) ==
    Obj([enabled |-> IF Typeof(Get(input, "enabled")) = "boolean"
                     THEN Get(input, "enabled") ELSE Get(GetDefaultConfig, "enabled"),
         services |-> ValidateServices(TopLevelServices(input)),
         filters |-> ValidateFilters(input)])
\* config.enabled of null throws a TypeError
ValidateConfigThrows(input) == input.t \in {"null", "undefined"}

\* load: the file's document validated; the defaults when there is no file,
\* when its text is not JSON and when validateConfig throws
LoadFile(file) ==
    IF file.kind = "json" /\ ~ValidateConfigThrows(JSONParse(file))
    THEN ValidateConfig(JSONParse(file))
    ELSE GetDefaultConfig

\* Inputs of the ConfigManager: configurations as a command or a hand-edited
\* file can hold them, one field at a time away from a well-formed one.
KeyOk == Str(Credential(PushoverKeyLen))
SoundC == Str(<<"c">>)
PushoverOk ==
    [userKey |-> KeyOk, apiToken |-> KeyOk, priority |-> Num(1), sound |-> SoundC]
PushoverInputs ==
    {Obj([PushoverOk EXCEPT !.priority = p]) :
        p \in {Undefined, Num(1), Num(-2), Num(99), Halves(3), Str(<<"0">>), NaN}}
    \cup {Obj([PushoverOk EXCEPT !.userKey = u]) :
              u \in {Undefined, Str(Credential(5)), Num(5)}}
    \cup {Obj([PushoverOk EXCEPT !.apiToken = Undefined]),
          Obj([PushoverOk EXCEPT !.sound = Undefined]),
          Bool(TRUE)}
ServicesInputs ==
    {Undefined, EmptyObject, Str(<<"a","b","c">>), Num(5), Arr(<<KeyOk>>)}
    \cup {Obj([pushover |-> p]) : p \in PushoverInputs}
FiltersOk ==
    Obj([onlyWhenAway |-> Bool(FALSE),
         highlights |-> Bool(FALSE),
         keywords |-> Arr(<<Str(KwUp)>>),
         channels |-> Obj([whitelist |-> Arr(<<Str(ChanA)>>), blacklist |-> Arr(<<>>)])])
FiltersInputs ==
    {Undefined, FiltersOk, Str(<<"x">>),
     Obj([onlyWhenAway |-> Str(<<"t","r","u","e">>),
          highlights |-> Num(1),
          keywords |-> Str(KwUp),
          channels |-> Obj([whitelist |-> Str(ChanA), blacklist |-> Null])]),
     Obj([keywords |-> Arr(<<Str(KwUp)>>), channels |-> Str(ChanA)])}
ConfigOk == [enabled |-> Bool(TRUE), services |-> EmptyObject, filters |-> FiltersOk]
StoreInputs ==
    {Obj([ConfigOk EXCEPT !.enabled = e]) : e \in {Undefined, Bool(FALSE), Str(<<"y","e","s">>)}}
    \cup {Obj([ConfigOk EXCEPT !.services = s]) : s \in ServicesInputs}
    \cup {Obj([ConfigOk EXCEPT !.filters = f]) : f \in FiltersInputs}
\* what another process can leave in the file
EditedFiles ==
    {NoFile, CorruptFile, JSONFile(Null), JSONFile(Num(5))}
    \cup {JSONFile(JSONStringify(c)) : c \in StoreInputs}

NewStore ==
    [file |-> NoFile,          \* the user's configuration file
     op |-> "none",            \* the last call
     arg |-> Undefined,        \* its argument
     result |-> Undefined,     \* what it returned
     saved |-> Undefined]      \* the argument of the save that wrote the file

StoreFrame ==
    UNCHANGED <<config, client, notifiers, recentNotifications, invocations,
                sendLog, now, nextCleanupAt, isSetup, session, configFile,
                pushoverModule, pluginState, vendor>>

\* validateConfig(c)
StoreValidateConfig(c) ==
    /\ store' = [store EXCEPT !.op = "validateConfig", !.arg = c,
                              !.result = ValidateConfig(c)]
    /\ StoreFrame

\* save(c): false when validateConfig or the write throws, and then the
\* file is as it was
StoreSave(c, written) ==
    /\ store' = IF ~ValidateConfigThrows(c) /\ written
                THEN [store EXCEPT !.op = "save", !.arg = c, !.result = Bool(TRUE),
                          !.file = JSONFile(JSONStringify(ValidateConfig(c))),
                          !.saved = c]
                ELSE [store EXCEPT !.op = "save", !.arg = c, !.result = Bool(FALSE)]
    /\ StoreFrame

\* load()
StoreLoad ==
    /\ store' = [store EXCEPT !.op = "load", !.arg = Undefined,
                              !.result = LoadFile(store.file)]
    /\ StoreFrame

\* the file is written, removed or damaged by something else
StoreFileEdited(f) ==
    /\ f # store.file
    /\ store' = [store EXCEPT !.op = "edit", !.arg = Undefined, !.result = Undefined,
                              !.file = f, !.saved = Undefined]
    /\ StoreFrame

NoRouter ==
    /\ config = [filters |-> FileFilters]
    /\ client \in {c \in RouterClients : ~c.away}
    /\ notifiers = <<>>
    /\ isSetup = {}
    /\ session = NewSession
    /\ configFile \in {f \in ConfigFiles : DOMAIN f.services = {}}
    /\ recentNotifications = {}
    /\ invocations = <<>>
    /\ sendLog = <<>>
    /\ now = 0
    /\ nextCleanupAt = CleanupIntervalMs
    /\ pluginState = EmptyRegistry

InitStore ==
    /\ NoRouter
    /\ pushoverModule = "dualMode"
    /\ store = NewStore
    /\ vendor = NoVendor

NextStore ==
    \/ \E c \in StoreInputs : StoreValidateConfig(c)
    \/ \E c \in StoreInputs \cup {Null}, written \in BOOLEAN : StoreSave(c, written)
    \/ StoreLoad
    \/ \E f \in EditedFiles : StoreFileEdited(f)

SpecStore == InitStore /\ [][NextStore]_vars

(***************************************************************************)
(* PushoverNotifier on its own, in its two versions, and the vendor client *)
(***************************************************************************)
SoundPushover == Str(<<"p","u","s","h","o","v","e","r">>)

\* registerVariables[key].validate(value) of the newer version; the mutant
\* accepts a credential of any length
CredentialValidAnyLength(value) == value.t = "string" /\ Len(value.v) > 0
CredentialValid(value) == value.t = "string" /\ Len(value.v) = PushoverKeyLen
PriorityValid(value) == IsInteger(value) /\ value.halves >= -4 /\ value.halves <= 4
SoundValid(value) == value.t = "string" /\ Len(value.v) > 0
\* validateWithLogging() of the newer version: every registered variable
\* passes its validate function
RegisterVariablesValid(cfg) ==
    /\ CredentialValid(Get(cfg, "userKey"))
    /\ CredentialValid(Get(cfg, "apiToken"))
    /\ PriorityValid(Get(cfg, "priority"))
    /\ SoundValid(Get(cfg, "sound"))
\* lines 496-500: the default of an optional variable that is undefined
ApplyDefaults(cfg) ==
    LET withPriority == IF Get(cfg, "priority") = Undefined
                        THEN SetProperty(cfg, "priority", Num(0)) ELSE cfg
    IN  IF Get(withPriority, "sound") = Undefined
        THEN SetProperty(withPriority, "sound", SoundPushover) ELSE withPriority
\* validate() of the older version: false when a credential is falsy; a
\* length other than 30 is warned about only
ValidateOlder(cfg) == Truthy(Get(cfg, "userKey")) /\ Truthy(Get(cfg, "apiToken"))

\* lines 502-513 of the newer version: the client is set up when the service
\* is enabled and the configuration validates; the mutant does not validate
IsSetupWhenEnabled(cfg) == Truthy(Get(cfg, "enabled"))
IsSetup(cfg) == Truthy(Get(cfg, "enabled")) /\ RegisterVariablesValid(cfg)

\* the configurations a PushoverNotifier is constructed with: what
\* validateConfig returns as services.pushover, as initializeNotifiers
\* passes it, and configurations with an enabled field, as a caller of the
\* newer version passes them
ValidatedPushover(p) == Get(ValidateServices(Obj([pushover |-> p])), "pushover")
NotifierInputs ==
    [cfg : {ValidatedPushover(p) : p \in PushoverInputs}, validated : {TRUE}]
    \cup [cfg : {SetProperty(p, "enabled", Bool(b)) :
                    p \in {q \in PushoverInputs : q.t = "object"}, b \in BOOLEAN},
          validated : {FALSE}]
    \cup [cfg : {EmptyObject}, validated : {FALSE}]

\* notification.timestamp.getTime() of the notifications sent
TimestampsMs == {0, 1999}
\* Math.floor(ms / 1000)
UnixTimestamp(ms) == ms \div 1000
\* what the vendor callback reports
VendorErrors == {"none", "API error"}

NoNotifier ==
    [state |-> "none",       \* none, threw, metadata or ready
     input |-> Undefined,    \* the constructor's argument
     validated |-> FALSE,    \* the argument is a result of validateConfig
     config |-> Undefined,   \* this.config
     priority |-> Undefined, \* this.priority / this.config.priority
     sound |-> Undefined,    \* this.sound / this.config.sound
     valid |-> Undefined,    \* what validate() last returned
     calls |-> <<>>,         \* the payloads handed to client.send
     promises |-> <<>>,      \* one promise per call of send
     thrown |-> 0]           \* calls of send that threw instead of returning

NotifierFrame ==
    UNCHANGED <<config, client, notifiers, recentNotifications, invocations,
                sendLog, now, nextCleanupAt, isSetup, session, configFile,
                pushoverModule, pluginState, store>>

\* new PushoverNotifier(config, logger)
NotifierConstruct(in) ==
    /\ vendor.state = "none"
    /\ vendor' =
         IF pushoverModule = "throwing"
         THEN IF ValidateOlder(in.cfg)
              THEN [vendor EXCEPT !.state = "ready", !.input = in.cfg,
                       !.validated = in.validated, !.config = in.cfg,
                       !.priority = OrElse(Get(in.cfg, "priority"), Num(0)),
                       !.sound = OrElse(Get(in.cfg, "sound"), SoundPushover),
                       !.valid = Bool(TRUE)]
              ELSE [vendor EXCEPT !.state = "threw", !.input = in.cfg,
                       !.validated = in.validated, !.valid = Bool(FALSE)]
         ELSE LET cfg == ApplyDefaults(in.cfg)
                  enabled == Truthy(Get(cfg, "enabled"))
              IN  [vendor EXCEPT
                       !.state = IF IsSetup(cfg) THEN "ready" ELSE "metadata",
                       !.input = in.cfg, !.validated = in.validated,
                       !.config = cfg,
                       !.priority = Get(cfg, "priority"),
                       !.sound = Get(cfg, "sound"),
                       !.valid = IF enabled THEN Bool(RegisterVariablesValid(cfg))
                                 ELSE Undefined]
    /\ NotifierFrame

\* validate() of the older version, validateWithLogging() of the newer one,
\* called on a notifier
NotifierValidate ==
    /\ vendor.state \in {"metadata", "ready"}
    /\ vendor' = [vendor EXCEPT !.valid =
                     Bool(IF pushoverModule = "throwing"
                          THEN ValidateOlder(vendor.config)
                          ELSE RegisterVariablesValid(vendor.config))]
    /\ NotifierFrame

\* how the promise of send settles on the callback's err
SettleIgnoringError(err) == "resolved"
Settle(err) == IF err # "none" THEN "rejected" ELSE "resolved"

\* send(notification): an async function whose body is a promise executor,
\* so an exception of the body (no client in metadata mode, a vendor client
\* that throws) rejects the promise
NotifierSend(ms, vendorThrows) ==
    /\ vendor.state \in {"metadata", "ready"}
    /\ Len(vendor.promises) < MaxSends
    /\ vendor' =
         IF vendor.state = "ready"
         THEN [vendor EXCEPT
                 !.calls = Append(@, [message |-> TestMessage,
                                      title |-> TestTitle,
                                      priority |-> vendor.priority,
                                      sound |-> vendor.sound,
                                      timestamp |-> UnixTimestamp(ms)]),
                 !.promises = Append(@,
                     [state |-> IF vendorThrows THEN "rejected" ELSE "pending",
                      error |-> IF vendorThrows THEN "thrown by the vendor" ELSE "none",
                      call |-> Len(vendor.calls) + 1,
                      callbacks |-> 0])]
         ELSE [vendor EXCEPT
                 !.promises = Append(@,
                     [state |-> "rejected", error |-> "TypeError",
                      call |-> 0, callbacks |-> 0])]
    /\ NotifierFrame

\* the vendor client calls back: the promise settles
VendorCallback(i, err) ==
    /\ i \in 1..Len(vendor.promises)
    /\ vendor.promises[i].state = "pending"
    /\ vendor' = [vendor EXCEPT !.promises[i].state = Settle(err),
                                !.promises[i].error = err,
                                !.promises[i].callbacks = @ + 1]
    /\ NotifierFrame

InitNotifier ==
    /\ NoRouter
    /\ pushoverModule \in PushoverModules
    /\ store = NoStore
    /\ vendor = NoNotifier

NextNotifier ==
    \/ \E in \in NotifierInputs : NotifierConstruct(in)
    \/ NotifierValidate
    \/ \E ms \in TimestampsMs, vendorThrows \in BOOLEAN : NotifierSend(ms, vendorThrows)
    \/ \E i \in 1..MaxSends, err \in VendorErrors : VendorCallback(i, err)

SpecNotifier == InitNotifier /\ [][NextNotifier]_vars

(***************************************************************************)
(* formatNotification and getDeduplicationKey over messages of every       *)
(* shape: one ready notifier, filters that let every message through, no   *)
(* cleanup within the run.                                                 *)
(***************************************************************************)
ChanAB == <<"#","a","-","b">>
NickBC == <<"b","-","c">>
FormatMessages ==
    { [type |-> t, network |-> NetName, channel |-> c, nick |-> NickC,
       message |-> BodyOk] : t \in {"privmsg", "action"}, c \in {ChanA, NickC} }
    \cup { Msg("privmsg", ChanAB, NickC, BodyOk),
           Msg("privmsg", ChanA, NickBC, BodyOk) }
    \cup { Msg("privmsg", ChanA, NickC, b) : b \in {BodyLongA, BodyLongB} }

InitFormat ==
    /\ config = [filters |-> Filters(FALSE, FALSE, <<>>, <<>>, <<>>)]
    /\ client \in RouterClients
    /\ notifiers = SubSeq(NotifierNames, 1, 1)
    /\ isSetup = Range(notifiers)
    /\ session = NewSession
    /\ configFile \in {f \in ConfigFiles : DOMAIN f.services = {}}
    /\ pushoverModule = "dualMode"
    /\ pluginState = EmptyRegistry
    /\ store = NoStore
    /\ vendor = NoVendor
    /\ recentNotifications = {}
    /\ invocations = <<>>
    /\ sendLog = <<>>
    /\ now \in TimestampsMs
    /\ nextCleanupAt = CleanupIntervalMs

FormatMessageArrives ==
    \E m \in FormatMessages :
        Len(invocations) < MaxFormatInvocations /\ ProcessMessage(m)

NextFormat ==
    \/ FormatMessageArrives
    \/ \E i \in 1..MaxFormatInvocations, ok \in BOOLEAN :
          SendSettles(i, NotifierNames[1], ok)
    \/ \E i \in 1..MaxFormatInvocations : ProcessMessageResumes(i)

SpecFormat == InitFormat /\ [][NextFormat]_vars

(***************************************************************************)
(* The outcomes of the sends: a manager with no notifier and one with two, *)
(* whose sends succeed or fail, over the epochs of the cleanup timer.      *)
(***************************************************************************)
OutcomeNotifiers == {<<>>, NotifierNames}
OutcomeMessages == {Msg("privmsg", ChanA, NickC, BodyOk)}

InitOutcome ==
    /\ config = [filters |-> Filters(FALSE, FALSE, <<>>, <<>>, <<>>)]
    /\ client \in RouterClients
    /\ notifiers \in OutcomeNotifiers
    /\ isSetup = Range(notifiers)
    /\ session = NewSession
    /\ configFile \in {f \in ConfigFiles : DOMAIN f.services = {}}
    /\ pushoverModule = "dualMode"
    /\ InitRouter

OutcomeMessageArrives ==
    \E m \in OutcomeMessages :
        Len(invocations) < MaxOutcomeInvocations /\ ProcessMessage(m)

NextOutcome ==
    \/ OutcomeMessageArrives
    \/ \E i \in 1..MaxOutcomeInvocations, n \in Range(NotifierNames), ok \in BOOLEAN :
          SendSettles(i, n, ok)
    \/ \E i \in 1..MaxOutcomeInvocations : ProcessMessageResumes(i)
    \/ CleanupTimerFires
    \/ Tick

SpecOutcome == InitOutcome /\ [][NextOutcome]_vars

(***************************************************************************)
(* The plugin inside the host: the sessions of one user on two networks,   *)
(* the configuration files, the keyword commands, the cleanup timers of    *)
(* the NotificationManagers built so far, and a restart of the host.       *)
(***************************************************************************)
\* the pairs of the user who is on more than one network
HostPairs == {p \in Pairs : \E q \in Pairs : q # p /\ q[1] = p[1]}
HostMessages == {Msg("privmsg", ChanA, NickC, b) : b \in {BodyUP, BodyAlUp}}
HostKeywords == {KwUp}

\* config-manager.js line 14 with the arguments of index.js line 52:
\* `${client.name}-config.json`
ConfigPath(c, n) == c \o <<"-","c","o","n","f","i","g",".","j","s","o","n">>

\* the state object getPluginState stores, with the filters of the
\* configuration its NotificationManager was built with and that manager's
\* dedup cache; notified keeps, for the properties, the keys the session
\* sent on since a cleanup timer of one of its managers last fired
HostEntry(c, n) ==
    [client |-> c, network |-> n, enabled |-> FALSE, notificationManager |-> 0,
     listenersSetup |-> FALSE, listeners |-> 0,
     filters |-> FileFilters, recent |-> {}, notified |-> {}]

NoCall == [command |-> "none", key |-> <<>>, result |-> "none"]

\* the plugin after onServerStart, over the files found on disk
HostStarted(files, restarts) ==
    [map |-> <<>>,          \* pluginState: key -> state object
     files |-> files,       \* path -> content of the configuration file
     timers |-> <<>>,       \* the running setInterval timers: manager -> key
     ops |-> 0,             \* commands, events and timer firings so far
     restarts |-> restarts, \* restarts of the host so far
     last |-> NoCall]       \* the last command or event and its outcome

HostGetPluginState(host, c, n) ==
    IF PluginKey(c, n) \in DOMAIN host.map
    THEN host
    ELSE [host EXCEPT !.map = (PluginKey(c, n) :> HostEntry(c, n)) @@ host.map]

HostFrame ==
    UNCHANGED <<config, client, notifiers, recentNotifications, invocations,
                sendLog, now, nextCleanupAt, isSetup, session, configFile,
                pushoverModule, store, vendor>>

HostDone(host, command, key, result) ==
    [host EXCEPT !.ops = @ + 1,
                 !.last = [command |-> command, key |-> key, result |-> result]]

\* index.js lines 136-146: a new NotificationManager on the configuration
\* just loaded (its constructor starts a timer and an empty cache), the
\* listeners, enabled = true
HostEnabled(host, key, loaded) ==
    [host EXCEPT
        !.timers = Append(@, key),
        !.map[key] =
            [SetupMessageMonitoring(
                 [@ EXCEPT !.notificationManager = Len(host.timers) + 1,
                           !.filters = loaded.filters,
                           !.recent = {}])
                EXCEPT !.enabled = TRUE]]

\* enableNotifications
HostEnable(c, n) ==
    LET host == HostGetPluginState(pluginState, c, n)
        key == PluginKey(c, n)
        loaded == Load(host.files[ConfigPath(c, n)])
    IN  /\ pluginState.ops < MaxHostOps
        /\ pluginState' =
              IF EnableRefused(loaded.services)
              THEN HostDone(host, "enable", key, "error")
              ELSE HostDone(HostEnabled(host, key, loaded), "enable", key, "ok")
        /\ HostFrame

\* disableNotifications
HostDisable(c, n) ==
    LET host == HostGetPluginState(pluginState, c, n)
        key == PluginKey(c, n)
    IN  /\ pluginState.ops < MaxHostOps
        /\ pluginState' =
              HostDone([host EXCEPT !.map[key] = Disabled(@)], "disable", key, "ok")
        /\ HostFrame

\* handleAddKeyword: load, refuse a keyword already there, push, save
HostAddKeyword(c, n, kw) ==
    LET host == HostGetPluginState(pluginState, c, n)
        key == PluginKey(c, n)
        path == ConfigPath(c, n)
        loaded == Load(host.files[path])
    IN  /\ pluginState.ops < MaxHostOps
        /\ pluginState' =
              IF ArrIncludes(loaded.filters.keywords, kw)
              THEN HostDone(host, "add-keyword", key, "error")
              ELSE HostDone(
                       [host EXCEPT !.files[path] =
                           [loaded EXCEPT !.filters.keywords = Append(@, kw)]],
                       "add-keyword", key, "ok")
        /\ HostFrame

\* handleRemoveKeyword: load, refuse a keyword not there, splice, save
HostRemoveKeyword(c, n, kw) ==
    LET host == HostGetPluginState(pluginState, c, n)
        key == PluginKey(c, n)
        path == ConfigPath(c, n)
        loaded == Load(host.files[path])
        keywords == loaded.filters.keywords
        index == CHOOSE i \in 1..Len(keywords) : keywords[i] = kw
    IN  /\ pluginState.ops < MaxHostOps
        /\ pluginState' =
              IF ~ArrIncludes(keywords, kw)
              THEN HostDone(host, "remove-keyword", key, "error")
              ELSE HostDone(
                       [host EXCEPT !.files[path] =
                           [loaded EXCEPT !.filters.keywords =
                               SubSeq(keywords, 1, index - 1)
                                   \o SubSeq(keywords, index + 1, Len(keywords))]],
                       "remove-keyword", key, "ok")
        /\ HostFrame

\* an IRC event on the network of a session whose listeners are installed:
\* handleIrcMessage, and processMessage of the session's manager with the
\* configuration that manager was built with
HostEvent(c, n, m) ==
    LET key == PluginKey(c, n)
        entry == pluginState.map[key]
        messageData == MessageData(m, now)
        dedupKey == GetDeduplicationKey(messageData)
    IN  /\ pluginState.ops < MaxHostOps
        /\ key \in DOMAIN pluginState.map
        /\ entry.listeners > 0
        /\ pluginState' =
              IF EventDropped(entry)
              THEN HostDone(pluginState, "event", key, "dropped")
              ELSE IF ~ShouldNotify(messageData, client, entry.filters)
              THEN HostDone(pluginState, "event", key, "filtered")
              ELSE IF dedupKey \in entry.recent
              THEN HostDone(pluginState, "event", key, "duplicate")
              ELSE HostDone([pluginState EXCEPT
                                !.map[key].recent = AddRecent(@, dedupKey),
                                !.map[key].notified = @ \cup {dedupKey}],
                            "event", key, "dispatched")
        /\ HostFrame

\* the timer of one of the managers built since the host started fires: the
\* cache of that manager is cleared, which shows when it still is the
\* manager of its session
HostTimerFires(id) ==
    /\ pluginState.ops < MaxHostOps
    /\ id \in 1..Len(pluginState.timers)
    /\ LET key == pluginState.timers[id]
           entry == pluginState.map[key]
       IN  pluginState' =
              HostDone([pluginState EXCEPT
                           !.map[key].recent =
                               IF entry.notificationManager = id
                               THEN ClearRecent(@) ELSE @,
                           !.map[key].notified = {}],
                       "cleanup", key, "ok")
    /\ HostFrame

\* the host process stops and starts again: onServerStart runs on an empty
\* module state, the files are as they were
HostRestart ==
    /\ pluginState.restarts < MaxRestarts
    /\ pluginState.map # <<>>
    /\ pluginState' = [HostStarted(pluginState.files, pluginState.restarts + 1)
                          EXCEPT !.ops = pluginState.ops,
                                 !.last = [NoCall EXCEPT !.command = "restart"]]
    /\ HostFrame

InitHost ==
    /\ config = [filters |-> FileFilters]
    /\ client \in RouterClients
    /\ notifiers = <<>>
    /\ isSetup = {}
    /\ session = NewSession
    /\ configFile \in {f \in ConfigFiles : DOMAIN f.services = {}}
    /\ recentNotifications = {}
    /\ invocations = <<>>
    /\ sendLog = <<>>
    /\ now = 0
    /\ nextCleanupAt = CleanupIntervalMs
    /\ pushoverModule = "throwing"
    /\ store = NoStore
    /\ vendor = NoVendor
    /\ \E f \in RegistryConfigs :
          pluginState = [HostStarted([path \in {ConfigPath(p[1], p[2]) : p \in HostPairs}
                                          |-> f], 0)
                            EXCEPT !.last = NoCall]

NextHost ==
    \/ \E p \in HostPairs : HostEnable(p[1], p[2])
    \/ \E p \in HostPairs : HostDisable(p[1], p[2])
    \/ \E p \in HostPairs, kw \in HostKeywords : HostAddKeyword(p[1], p[2], kw)
    \/ \E p \in HostPairs, kw \in HostKeywords : HostRemoveKeyword(p[1], p[2], kw)
    \/ \E p \in HostPairs, m \in HostMessages : HostEvent(p[1], p[2], m)
    \/ \E id \in 1..MaxHostOps : HostTimerFires(id)
    \/ HostRestart

SpecHost == InitHost /\ [][NextHost]_vars

(***************************************************************************)
(* Vocabulary of the properties.                                           *)
(***************************************************************************)
Invs == 1..Len(invocations)
Whitelist == Range(config.filters.channels.whitelist)
Blacklist == Range(config.filters.channels.blacklist)

\* the send calls made by the i-th processMessage call
SendsOf(i) == {k \in 1..Len(sendLog) : sendLog[k].inv = i}

\* shouldNotify returned true for the i-th call
Qualified(i) == invocations[i].result # "filtered"

\* needle occurs in hay when letter case is ignored
OccursIgnoringCase(hay, needle) ==
    \E off \in 0..(Len(hay) - Len(needle)) :
        \A j \in 1..Len(needle) : ToLowerChar(hay[off + j]) = ToLowerChar(needle[j])

\* the same message: every field but the receipt timestamp
SameMessage(a, b) ==
    /\ a.type = b.type /\ a.network = b.network /\ a.channel = b.channel
    /\ a.nick = b.nick /\ a.message = b.message

\* the client's current filters with the blacklist emptied
WithoutBlacklist(filters) ==
    [filters EXCEPT !.channels.blacklist = <<>>]

(***************************************************************************)
(* C1: a non-empty whitelist that does not hold the message's channel      *)
(* makes shouldNotify return false, whatever keywords, highlight setting   *)
(* and body are, and processMessage then calls send on no notifier.        *)
(***************************************************************************)
C1_WhitelistExcludes ==
    Whitelist # {} =>
        /\ \A m \in FilterMessages :
               m.channel \notin Whitelist
                   => ~ShouldNotify(MessageData(m, now), client, config.filters)
        /\ \A i \in Invs :
               invocations[i].msg.channel \notin Whitelist
                   => invocations[i].result = "filtered" /\ SendsOf(i) = {}

\* a message that names the recipient or holds a keyword was processed and
\* dropped because its channel is not in the whitelist
C1_Witness ==
    \E i \in Invs :
        /\ Whitelist # {}
        /\ invocations[i].msg.channel \notin Whitelist
        /\ invocations[i].msg.channel \notin Blacklist
        /\ Decision(invocations[i].msg, client, config.filters)
        /\ invocations[i].result = "filtered"

(***************************************************************************)
(* C2: with an empty whitelist, a blacklist that holds the message's       *)
(* channel makes shouldNotify return false, whatever keywords, highlight   *)
(* setting and body are.                                                   *)
(***************************************************************************)
C2_BlacklistExcludes ==
    Whitelist = {} =>
        /\ \A m \in FilterMessages :
               m.channel \in Blacklist
                   => ~ShouldNotify(MessageData(m, now), client, config.filters)
        /\ \A i \in Invs :
               invocations[i].msg.channel \in Blacklist
                   => invocations[i].result = "filtered" /\ SendsOf(i) = {}

C2_Witness ==
    \E i \in Invs :
        /\ Whitelist = {}
        /\ invocations[i].msg.channel \in Blacklist
        /\ Decision(invocations[i].msg, client, config.filters)
        /\ invocations[i].result = "filtered"

(***************************************************************************)
(* C3, as claimed: for a message whose channel is in a non-empty           *)
(* whitelist, shouldNotify returns what it would return with an empty      *)
(* blacklist, also when the channel is in the blacklist too.               *)
(***************************************************************************)
C3_WhitelistOverridesBlacklist ==
    \A i \in Invs :
        invocations[i].msg.channel \in Whitelist
            => (Qualified(i) <=>
                   ShouldNotify(invocations[i].msg, client,
                                WithoutBlacklist(config.filters)))

(***************************************************************************)
(* C3, amended: for a message whose channel is in a non-empty whitelist,   *)
(* shouldNotify returns false when that channel is in the blacklist too,   *)
(* and what it would return with an empty blacklist otherwise.             *)
(***************************************************************************)
C3_BlacklistStillApplies ==
    /\ \A m \in FilterMessages :
           m.channel \in Whitelist
               => (ShouldNotify(MessageData(m, now), client, config.filters) <=>
                      /\ m.channel \notin Blacklist
                      /\ ShouldNotify(MessageData(m, now), client,
                                      WithoutBlacklist(config.filters)))
    /\ \A i \in Invs :
           invocations[i].msg.channel \in Whitelist \cap Blacklist
               => invocations[i].result = "filtered" /\ SendsOf(i) = {}

\* a message on a channel of both lists, which would notify with an empty
\* blacklist, was processed and dropped
C3_Witness ==
    \E i \in Invs :
        /\ invocations[i].msg.channel \in Whitelist \cap Blacklist
        /\ ShouldNotify(invocations[i].msg, client, WithoutBlacklist(config.filters))
        /\ invocations[i].result = "filtered"

(***************************************************************************)
(* C4: for a message that passes the channel filters, with a keyword       *)
(* configured or highlights on, shouldNotify returns true exactly when a   *)
(* configured keyword occurs in the body ignoring case, or highlights is   *)
(* on and the recipient's name occurs in the body ignoring case.           *)
(***************************************************************************)
C4_Expected(m) ==
    \/ \E k \in Range(config.filters.keywords) : OccursIgnoringCase(m.message, k)
    \/ config.filters.highlights /\ OccursIgnoringCase(m.message, client.name)

C4_KeywordOrHighlight ==
    (config.filters.keywords # <<>> \/ config.filters.highlights) =>
        /\ \A m \in FilterMessages :
               ~ChannelRejected(m, config.filters)
                   => (ShouldNotify(MessageData(m, now), client, config.filters)
                          <=> C4_Expected(m))
        /\ \A i \in Invs :
               ~ChannelRejected(invocations[i].msg, config.filters)
                   => (Qualified(i) <=> C4_Expected(invocations[i].msg))

\* a keyword matched in another letter case only, with highlights off, and
\* the message was sent on
C4_Witness ==
    \E i \in Invs :
        /\ ~config.filters.highlights
        /\ config.filters.keywords # <<>>
        /\ \A k \in Range(config.filters.keywords) :
               ~StrIncludes(invocations[i].msg.message, k)
        /\ invocations[i].result = "dispatched"
        /\ SendsOf(i) # {}

(***************************************************************************)
(* C5: with no keyword, highlights off and both channel lists empty,       *)
(* shouldNotify returns true for every message.                            *)
(***************************************************************************)
C5_PermissiveDefault ==
    (/\ config.filters.keywords = <<>>
     /\ ~config.filters.highlights
     /\ Whitelist = {} /\ Blacklist = {}) =>
        /\ \A m \in FilterMessages :
               ShouldNotify(MessageData(m, now), client, config.filters)
        /\ \A i \in Invs : Qualified(i)

\* a message that names nobody was sent on under the empty configuration
C5_Witness ==
    \E i \in Invs :
        /\ config.filters.keywords = <<>> /\ ~config.filters.highlights
        /\ Whitelist = {} /\ Blacklist = {}
        /\ invocations[i].msg.message = BodyOk
        /\ invocations[i].result = "dispatched"

(***************************************************************************)
(* C6: with filters.onlyWhenAway set, a recipient who is not away gets no  *)
(* notification: shouldNotify returns false and no send is called,         *)
(* whatever the message holds.                                             *)
(***************************************************************************)
C6_OnlyWhenAway ==
    (config.filters.onlyWhenAway /\ ~client.away) =>
        \A i \in Invs : invocations[i].result = "filtered" /\ SendsOf(i) = {}


(***************************************************************************)
(* Vocabulary of the dedup properties.                                     *)
(***************************************************************************)
\* the message of a call without its receipt timestamp
Plain(i) ==
    [type |-> invocations[i].msg.type, network |-> invocations[i].msg.network,
     channel |-> invocations[i].msg.channel, nick |-> invocations[i].msg.nick,
     message |-> invocations[i].msg.message]

\* the messages passed to processMessage in the epoch of call i, up to call i
EpochMessagesUpTo(i) ==
    {Plain(j) : j \in {k \in 1..i : invocations[k].epoch = invocations[i].epoch}}

\* how many send calls notifier n got, in the epoch of call i, for the message
\* of call i
SendCount(i, n) ==
    Cardinality({k \in 1..Len(sendLog) :
        /\ sendLog[k].notifier = n
        /\ invocations[sendLog[k].inv].epoch = invocations[i].epoch
        /\ Plain(sendLog[k].inv) = Plain(i)})

\* the two bodies differ somewhere in their first 50 characters
DifferWithinPrefix(a, b) ==
    \/ \E p \in 1..DedupPrefixLen :
           p <= Len(a) /\ p <= Len(b) /\ a[p] # b[p]
    \/ Len(a) # Len(b) /\ (Len(a) < DedupPrefixLen \/ Len(b) < DedupPrefixLen)

(***************************************************************************)
(* C7: within one dedup epoch, passing the same qualifying message to      *)
(* processMessage any number of times gives exactly one send call on each  *)
(* notifier; two qualifying messages that differ in the body within its    *)
(* first 50 characters (and in nothing else) give two send calls.          *)
(***************************************************************************)
C7_DedupWithinEpoch ==
    \A i \in Invs : \A n \in Range(notifiers) :
        Qualified(i) =>
            /\ SendCount(i, n) <= 1
            /\ EpochMessagesUpTo(i) = {Plain(i)} => SendCount(i, n) = 1
            /\ \A j \in 1..(i - 1) :
                   (/\ invocations[j].epoch = invocations[i].epoch
                    /\ Qualified(j)
                    /\ EpochMessagesUpTo(i) = {Plain(j), Plain(i)}
                    /\ Plain(j).network = Plain(i).network
                    /\ Plain(j).channel = Plain(i).channel
                    /\ Plain(j).nick = Plain(i).nick
                    /\ DifferWithinPrefix(Plain(j).message, Plain(i).message))
                       => SendCount(j, n) = 1 /\ SendCount(i, n) = 1

\* a message passed twice in one epoch was sent once and suppressed once
C7_Witness ==
    \E i, j \in Invs :
        /\ i < j
        /\ invocations[i].epoch = invocations[j].epoch
        /\ Plain(i) = Plain(j)
        /\ invocations[i].result = "dispatched"
        /\ invocations[j].result = "duplicate"
        /\ \A n \in Range(notifiers) : SendCount(j, n) = 1

\* two messages of one epoch that differ in the body were both sent
C7_WitnessDistinct ==
    \E i, j \in Invs :
        /\ i < j
        /\ invocations[i].epoch = invocations[j].epoch
        /\ DifferWithinPrefix(Plain(i).message, Plain(j).message)
        /\ invocations[i].result = "dispatched"
        /\ invocations[j].result = "dispatched"

(***************************************************************************)
(* C8: when a processMessage call for a message starts while an earlier    *)
(* call for the same message is still suspended waiting for its sends, at  *)
(* most one of the two passes the dedup check, in every interleaving.      *)
(***************************************************************************)
C8_NoOverlappingDoubleSend ==
    \A i, j \in Awaiting :
        (i < j /\ Plain(i) = Plain(j))
            => ~(invocations[i].result = "dispatched"
                 /\ invocations[j].result = "dispatched")

(***************************************************************************)
(* C9: a duplicate of a notified message that arrives 1 second after the   *)
(* original is suppressed, wherever in the 60-second epoch the original    *)
(* arrived, also when the cleanup timer fires between the two.             *)
(***************************************************************************)
C9_DuplicateAfterOneSecond ==
    \A i, j \in Invs :
        (/\ i < j
         /\ Plain(i) = Plain(j)
         /\ invocations[i].result = "dispatched"
         /\ invocations[j].msg.timestamp = invocations[i].msg.timestamp + 1000)
            => invocations[j].result = "duplicate"

(***************************************************************************)
(* C10: each firing of the cleanup timer empties the whole dedup cache, so *)
(* a key suppresses messages for at most one 60-second epoch: the cache    *)
(* holds keys of the current epoch only, a suppressed message has its      *)
(* original in the same epoch, and so a notified message that comes again  *)
(* after the next firing is dispatched again.                              *)
(***************************************************************************)
C10_CacheLivesOneEpoch ==
    /\ \A k \in recentNotifications :
           \E i \in Invs :
               /\ invocations[i].epoch = Epoch
               /\ invocations[i].result = "dispatched"
               /\ GetDeduplicationKey(invocations[i].msg) = k
    /\ \A j \in Invs :
           invocations[j].result = "duplicate" =>
               \E i \in 1..(j - 1) :
                   /\ invocations[i].epoch = invocations[j].epoch
                   /\ invocations[i].result = "dispatched"
                   /\ GetDeduplicationKey(invocations[i].msg)
                          = GetDeduplicationKey(invocations[j].msg)
                   /\ invocations[j].msg.timestamp - invocations[i].msg.timestamp
                          <= CleanupIntervalMs

\* a message notified before a firing of the timer was notified again after it
C10_Witness ==
    \E i, j \in Invs :
        /\ i < j
        /\ Plain(i) = Plain(j)
        /\ invocations[i].epoch < invocations[j].epoch
        /\ invocations[i].result = "dispatched"
        /\ invocations[j].result = "dispatched"

\* the send calls the i-th call made on notifier n
NotifierSends(i, n) == {k \in SendsOf(i) : sendLog[k].notifier = n}

\* the i-th call is a processMessage call that reached the send loop
Dispatched(i) == invocations[i].result = "dispatched"

(***************************************************************************)
(* C11: in processMessage a notifier whose send rejects neither prevents   *)
(* nor cancels the send of another notifier, and processMessage never      *)
(* rejects: every notifier got its one send, every send that has not       *)
(* settled stays pending, and once all have settled the call resolves.     *)
(***************************************************************************)
C11_FailureContained ==
    \A i \in Invs :
        Dispatched(i) =>
            /\ invocations[i].state \in {"awaiting", "resolved"}
            /\ \A n \in Range(notifiers) : Cardinality(NotifierSends(i, n)) = 1
            /\ invocations[i].state = "resolved" => invocations[i].pending = {}
            /\ (invocations[i].state = "awaiting" /\ invocations[i].pending = {})
                   => ENABLED ProcessMessageResumes(i)
            /\ \A n \in invocations[i].pending : ENABLED SendSettles(i, n, TRUE)

\* one notifier failed, the other one got its notification and succeeded,
\* and processMessage resolved
C11_Witness ==
    \E i \in Invs :
        /\ Dispatched(i)
        /\ invocations[i].failed = {"pushover"}
        /\ invocations[i].pending = {}
        /\ Cardinality(NotifierSends(i, "mock")) = 1
        /\ invocations[i].state = "resolved"

(***************************************************************************)
(* C12: for every qualifying, non-duplicate message processMessage calls   *)
(* send exactly once on every notifier of the map, each with the same      *)
(* formatted notification, and all the sends are started before any of     *)
(* them is waited for: they are in the log while all are still pending.    *)
(***************************************************************************)
C12_SendOncePerNotifier ==
    \A i \in Invs :
        Dispatched(i) =>
            /\ \A n \in Range(notifiers) : Cardinality(NotifierSends(i, n)) = 1
            /\ Cardinality(SendsOf(i)) = Len(notifiers)
            /\ \A k \in SendsOf(i) :
                   sendLog[k].notification = FormatNotification(invocations[i].msg)

\* both sends of a call are started and neither has settled
C12_Witness ==
    \E i \in Invs :
        /\ Dispatched(i)
        /\ Len(notifiers) = 2
        /\ invocations[i].pending = Range(notifiers)
        /\ Cardinality(SendsOf(i)) = 2

\* the dedup keys of the processMessage calls that reached the send loop
DispatchedKeys ==
    {GetDeduplicationKey(invocations[i].msg) : i \in {k \in Invs : Dispatched(k)}}

(***************************************************************************)
(* C13: when shouldNotify returns false processMessage has no side effect: *)
(* no send is called and the key of the message does not enter the dedup   *)
(* cache, so a later qualifying message with the same key is suppressed    *)
(* only when an earlier qualifying message with that key was dispatched.   *)
(***************************************************************************)
C13_FilteredLeavesNoTrace ==
    /\ \A i \in Invs : invocations[i].result = "filtered" => SendsOf(i) = {}
    /\ recentNotifications = DispatchedKeys
    /\ \A j \in Invs :
           invocations[j].result = "duplicate" =>
               \E i \in 1..(j - 1) :
                   /\ Dispatched(i)
                   /\ GetDeduplicationKey(invocations[i].msg)
                          = GetDeduplicationKey(invocations[j].msg)

\* a message was filtered out and a later message with the same dedup key
\* qualified and was dispatched
C13_Witness ==
    \E i, j \in Invs :
        /\ i < j
        /\ invocations[i].result = "filtered"
        /\ Dispatched(j)
        /\ GetDeduplicationKey(invocations[i].msg)
               = GetDeduplicationKey(invocations[j].msg)

\* the i-th call is a sendTestNotification call
IsTest(i) == invocations[i].result = "test"

(***************************************************************************)
(* C14: sendTestNotification calls send once on every notifier with the    *)
(* fixed test notification, whatever the filters are and whatever the      *)
(* dedup cache holds, and puts nothing into the cache, so that a second    *)
(* call in the same epoch sends again.                                     *)
(***************************************************************************)
C14_TestBypassesFiltersAndCache ==
    /\ \A i \in Invs :
           IsTest(i) =>
               /\ \A n \in Range(notifiers) : Cardinality(NotifierSends(i, n)) = 1
               /\ \A k \in SendsOf(i) :
                      sendLog[k].notification
                          = TestNotification(sendLog[k].notification.timestamp)
    /\ recentNotifications = DispatchedKeys

\* under filters that reject every message, two test notifications were sent
\* in one epoch, each to both notifiers
C14_Witness ==
    \E i, j \in Invs :
        /\ i < j
        /\ IsTest(i) /\ IsTest(j)
        /\ invocations[i].epoch = invocations[j].epoch
        /\ Whitelist # {}
        /\ Cardinality(SendsOf(i)) = 2
        /\ Cardinality(SendsOf(j)) = 2

\* a test notification was sent while the dedup cache held a key
C14_WitnessCache ==
    \E i, j \in Invs :
        /\ i < j
        /\ Dispatched(i)
        /\ IsTest(j)
        /\ Cardinality(SendsOf(j)) = 2

(***************************************************************************)
(* C15 as stated: sendTestNotification contains notifier failures as       *)
(* processMessage does; when a send rejects the other notifiers are still  *)
(* sent to and the promise of sendTestNotification does not reject.        *)
(***************************************************************************)
C15_TestFailureContained ==
    \A i \in Invs :
        IsTest(i) =>
            /\ \A n \in Range(notifiers) : Cardinality(NotifierSends(i, n)) = 1
            /\ invocations[i].state \in {"awaiting", "resolved"}

(***************************************************************************)
(* C15 amended: when a send of sendTestNotification rejects, the other     *)
(* notifiers are still sent to and their sends go on, but the rejection    *)
(* propagates: the promise of sendTestNotification is rejected exactly     *)
(* when a send has failed, and resolves only when every send succeeded.    *)
(***************************************************************************)
C15_TestFailurePropagates ==
    \A i \in Invs :
        IsTest(i) =>
            /\ \A n \in Range(notifiers) : Cardinality(NotifierSends(i, n)) = 1
            /\ invocations[i].state = "rejected" <=> invocations[i].failed # {}
            /\ invocations[i].state = "resolved" => invocations[i].pending = {}
            /\ \A n \in invocations[i].pending : ENABLED TestSendSettles(i, n, TRUE)

\* the send to pushover failed and rejected sendTestNotification; the send
\* to the other notifier was made and succeeded afterwards
C15_Witness ==
    \E i \in Invs :
        /\ IsTest(i)
        /\ invocations[i].failed = {"pushover"}
        /\ invocations[i].pending = {}
        /\ Cardinality(NotifierSends(i, "mock")) = 1
        /\ invocations[i].state = "rejected"

\* this step is a call of the given command
Calls(command) ==
    session'.calls = session.calls + 1 /\ session'.command = command

\* the step leaves the three fields of the session entry as they are
SessionKept ==
    /\ session'.enabled = session.enabled
    /\ session'.notificationManager = session.notificationManager
    /\ session'.listenersSetup = session.listenersSetup

(***************************************************************************)
(* C16: enable on a session whose loaded configuration has an empty        *)
(* services map returns a failure and leaves enabled, the manager          *)
(* reference and the listener flag as they were, whether the session was   *)
(* enabled or disabled before.                                             *)
(***************************************************************************)
C16_EnableWithoutServicesFails ==
    [][(Calls("enable") /\ DOMAIN Load(configFile).services = {})
          => /\ ~session'.success
             /\ SessionKept
             /\ UNCHANGED <<config, notifiers, isSetup, recentNotifications>>]_vars

\* an enabled session whose file lost its services was enabled again: the
\* call failed and the session is still enabled with its first manager
C16_Witness ==
    /\ session.command = "enable"
    /\ ~session.success
    /\ session.calls = 2
    /\ session.enabled
    /\ session.notificationManager = 1
    /\ DOMAIN configFile.services = {}

\* the same call on a session that was never enabled
C16_WitnessDisabled ==
    /\ session.command = "enable"
    /\ ~session.success
    /\ ~session.enabled
    /\ session.notificationManager = 0

\* validate() of the notifier of service n holds for its configuration
ServiceValidates(module, n, cfg) ==
    IF n = "pushover"
    THEN IF module = "dualMode" THEN ValidateWithLogging(cfg) ELSE ValidateNonEmpty(cfg)
    ELSE ExampleValidates(cfg)

\* the services of a loaded configuration that pass validate()
ValidServices(module, services) ==
    {n \in DOMAIN services : ServiceValidates(module, n, services[n])}

(***************************************************************************)
(* C17: after a successful enable the notifiers map holds one ready-mode   *)
(* notifier for every service of the configuration that passes validate(), *)
(* whatever its name, and no notifier that failed validation or is in      *)
(* metadata mode.                                                          *)
(***************************************************************************)
C17_NotifierPerValidService ==
    [][(Calls("enable") /\ session'.success)
          => /\ Range(notifiers')
                    = ValidServices(pushoverModule, Load(configFile).services)
             /\ Len(notifiers') = Cardinality(Range(notifiers'))
             /\ isSetup' = Range(notifiers')]_vars

(***************************************************************************)
(* What holds of the map instead: it has at most the pushover entry, and   *)
(* with the older pushover module that entry is there exactly when the     *)
(* credentials are non-empty and is in ready mode.                         *)
(***************************************************************************)
C17_OnlyPushover ==
    /\ Range(notifiers) \subseteq {"pushover"}
    /\ isSetup \subseteq Range(notifiers)
    /\ pushoverModule = "throwing" => isSetup = Range(notifiers)

\* enable succeeded on a configuration whose only service is a valid
\* example service, and the map is empty
C17_WitnessIgnored ==
    /\ session.command = "enable"
    /\ session.success
    /\ session.calls = 1
    /\ DOMAIN configFile.services = {"example"}
    /\ notifiers = <<>>

\* enable succeeded with the newer pushover module and the map holds a
\* pushover notifier in metadata mode
C17_WitnessMetadata ==
    /\ session.command = "enable"
    /\ session.success
    /\ pushoverModule = "dualMode"
    /\ notifiers = <<"pushover">>
    /\ isSetup = {}

(***************************************************************************)
(* C18: enable succeeds and sets enabled whenever the services map is not  *)
(* empty; when none of the services passes validation the new manager has  *)
(* no notifier, and a message then handed to it leads to no send call.     *)
(***************************************************************************)
C18_EnableWithoutValidService ==
    [][/\ (Calls("enable") /\ DOMAIN Load(configFile).services # {})
           => /\ session'.success
              /\ session'.enabled
              /\ ValidServices(pushoverModule, Load(configFile).services) = {}
                     => notifiers' = <<>>
       /\ (isSetup = {} /\ Len(invocations') > Len(invocations))
           => sendLog' = sendLog]_vars

\* with the older pushover module the case of the claim is as it says:
\* enable succeeded on a pushover service with an empty user key, the map
\* is empty and a qualifying message was dispatched to nobody
C18_WitnessThrowing ==
    /\ pushoverModule = "throwing"
    /\ session.enabled
    /\ notifiers = <<>>
    /\ "pushover" \in DOMAIN configFile.services
    /\ \E i \in Invs : Dispatched(i) /\ SendsOf(i) = {}

(***************************************************************************)
(* C19: disable returns success in every state of the session (never       *)
(* enabled, enabled, already disabled); afterwards enabled is false, and   *)
(* the manager reference and the listener flag are what they were.         *)
(***************************************************************************)
C19_DisableAlwaysSucceeds ==
    [][Calls("disable")
          => /\ session'.success
             /\ ~session'.enabled
             /\ session'.notificationManager = session.notificationManager
             /\ session'.listenersSetup = session.listenersSetup
             /\ session'.listeners = session.listeners
             /\ UNCHANGED <<config, notifiers, isSetup, recentNotifications>>]_vars

\* an enabled session was disabled and keeps its manager and its listeners
C19_Witness ==
    /\ session.command = "disable"
    /\ session.success
    /\ session.calls = 2
    /\ ~session.enabled
    /\ session.notificationManager = 1
    /\ session.listenersSetup

\* disable was called on a session that was never enabled
C19_WitnessNeverEnabled ==
    /\ session.command = "disable"
    /\ session.success
    /\ session.calls = 1
    /\ session.notificationManager = 0
    /\ ~session.listenersSetup

(***************************************************************************)
(* C20: while enabled is false every privmsg, action or notice event of    *)
(* the session is dropped before it reaches the manager: no processMessage *)
(* call is made, no send is started and the dedup cache does not change,   *)
(* also when the listeners are still installed from an earlier enable.     *)
(***************************************************************************)
C20_DisabledDropsEvents ==
    [][~session.enabled
          => /\ Len(invocations') = Len(invocations)
             /\ sendLog' = sendLog
             /\ session'.dropped # session.dropped
                    => /\ session'.dropped = session.dropped + 1
                       /\ recentNotifications' = recentNotifications]_vars

\* an event arrived at the installed listeners of a disabled session that
\* has a manager, and was dropped
C20_Witness ==
    /\ session.dropped > 0
    /\ ~session.enabled
    /\ session.listenersSetup
    /\ session.notificationManager > 0
    /\ invocations = <<>>
    /\ sendLog = <<>>

(***************************************************************************)
(* C21: after any sequence of enable and disable calls at most one         *)
(* listener per event kind is installed on the network of the session,     *)
(* so that an incoming event, which calls handleIrcMessage once per        *)
(* installed listener, leads to at most one processMessage call.           *)
(***************************************************************************)
C21_OneListenerPerKind ==
    /\ session.listeners <= 1
    /\ session.listenersSetup <=> session.listeners = 1
    /\ session.notificationManager > 0 => session.listeners = 1

\* the session was enabled twice, with a second manager built, and has one
\* listener per event kind
C21_Witness ==
    /\ session.calls = 2
    /\ session.command = "enable"
    /\ session.success
    /\ session.notificationManager = 2
    /\ session.listeners = 1

\* the entry of a pair, for a pair that has one
EntryOf(p) == pluginState.map[PluginKey(p[1], p[2])]
HasEntry(p) == PluginKey(p[1], p[2]) \in DOMAIN pluginState.map

(***************************************************************************)
(* C22: getPluginState is idempotent per (client id, network uuid) pair:   *)
(* every call for one pair returned the same state object, two pairs never *)
(* got the same object, each entry is the one of its own pair, and no step *)
(* removes an entry or puts another object in its place.                   *)
(***************************************************************************)
C22_OneEntryPerPair ==
    /\ [](/\ \A p \in Pairs : Cardinality(pluginState.handles[p]) <= 1
          /\ \A p, q \in Pairs :
                 p # q => pluginState.handles[p] \cap pluginState.handles[q] = {}
          /\ \A p \in Pairs :
                 IF HasEntry(p)
                 THEN /\ pluginState.handles[p] = {EntryOf(p).obj}
                      /\ EntryOf(p).client = p[1]
                      /\ EntryOf(p).network = p[2]
                 ELSE pluginState.handles[p] = {}
          /\ Cardinality(DOMAIN pluginState.map) = pluginState.created)
    /\ [][\A key \in DOMAIN pluginState.map :
             /\ key \in DOMAIN pluginState'.map
             /\ pluginState'.map[key].obj = pluginState.map[key].obj]_vars

\* two pairs of one client have an entry each, and more calls were made
\* than entries created
C22_Witness ==
    /\ pluginState.created = 2
    /\ pluginState.ops = 4
    /\ \E p, q \in Pairs :
           /\ p # q /\ p[1] = q[1]
           /\ HasEntry(p) /\ HasEntry(q)
           /\ EntryOf(p).obj # EntryOf(q).obj

(***************************************************************************)
(* C23: two sessions of one user on two networks are isolated: a step      *)
(* changes the entry of one pair only, so enable and disable of one        *)
(* session leave the other's enabled flag alone, and each session has its  *)
(* own dedup cache: a message is suppressed as a duplicate only after the  *)
(* same session dispatched it, whatever the other session has seen.        *)
(***************************************************************************)
C23_SessionsIsolated ==
    /\ [][\A k1, k2 \in DOMAIN pluginState.map :
             (k1 # k2 /\ pluginState'.map[k1] # pluginState.map[k1])
                 => pluginState'.map[k2] = pluginState.map[k2]]_vars
    /\ [](\A p \in Pairs :
            HasEntry(p) =>
                \A j \in 1..Len(EntryOf(p).results) :
                    EntryOf(p).results[j] = "duplicate"
                        => \E i \in 1..(j - 1) : EntryOf(p).results[i] = "dispatched")

\* one user, two networks of the same name: on the first the message was
\* dispatched and its repeat suppressed, on the second the same message
\* was dispatched all the same
C23_Witness ==
    \E p, q \in Pairs :
        /\ p[1] = q[1] /\ p[2] # q[2]
        /\ HasEntry(p) /\ HasEntry(q)
        /\ EntryOf(p).results = <<"dispatched", "duplicate">>
        /\ EntryOf(q).results = <<"dispatched">>

\* of two enabled sessions of one user one was disabled, the other is
\* still enabled
C23_WitnessFlags ==
    \E p, q \in Pairs :
        /\ p[1] = q[1] /\ p[2] # q[2]
        /\ HasEntry(p) /\ HasEntry(q)
        /\ ~EntryOf(p).enabled /\ EntryOf(p).notificationManager > 0
        /\ EntryOf(q).enabled

(***************************************************************************)
(* C24: a send that was dispatched runs to completion whatever happens     *)
(* later: while it is in flight it can succeed and it can fail, whether    *)
(* the session is enabled or not, a disable call changes neither the send  *)
(* log nor the state of any call, and no notifier gets a second send for   *)
(* one call, so a failed send is not retried.                              *)
(***************************************************************************)
C24_SendRunsToCompletion ==
    /\ [](\A i \in Invs :
            Dispatched(i) =>
                /\ \A n \in invocations[i].pending :
                       /\ ENABLED SendSettles(i, n, TRUE)
                       /\ ENABLED SendSettles(i, n, FALSE)
                /\ \A n \in invocations[i].pending \cup invocations[i].failed :
                       Cardinality(NotifierSends(i, n)) = 1
                /\ (invocations[i].state = "awaiting" /\ invocations[i].pending = {})
                       => ENABLED ProcessMessageResumes(i))
    /\ [][Calls("disable") => UNCHANGED <<invocations, sendLog>>]_vars
    /\ [][\A i \in Invs : invocations[i].failed \subseteq invocations'[i].failed]_vars

\* the session was disabled while a send was in flight
C24_Witness ==
    /\ session.command = "disable"
    /\ ~session.enabled
    /\ \E i \in Invs : Dispatched(i) /\ invocations[i].pending = {"pushover"}

\* and that send succeeded after the disable
C24_WitnessCompleted ==
    /\ session.command = "disable"
    /\ ~session.enabled
    /\ session.calls = 2
    /\ \E i \in Invs :
           /\ Dispatched(i)
           /\ invocations[i].pending = {} /\ invocations[i].failed = {}
           /\ Cardinality(NotifierSends(i, "pushover")) = 1
           /\ invocations[i].state = "resolved"

(***************************************************************************)
(* C25: the messages of a session are processed in arrival order: the      *)
(* filter and dedup decision of a call is made when the message arrives    *)
(* and never changes, a repeat sees the key of the message before it, and  *)
(* the sends of an earlier message precede, on every notifier, those of a  *)
(* later one, also while the earlier sends are still in flight.            *)
(***************************************************************************)
C25_ArrivalOrder ==
    /\ [](\A i, j \in Invs :
            (i < j /\ Dispatched(i) /\ Dispatched(j)) =>
                /\ \A k \in SendsOf(i), l \in SendsOf(j) : k < l
                /\ GetDeduplicationKey(invocations[i].msg)
                       # GetDeduplicationKey(invocations[j].msg))
    /\ [][\A i \in Invs : invocations'[i].result = invocations[i].result]_vars
    /\ [][\A k \in 1..Len(sendLog') :
             IF k <= Len(sendLog)
             THEN sendLog'[k] = sendLog[k]
             ELSE sendLog'[k].inv = Len(invocations')
                  /\ Len(invocations') = Len(invocations) + 1]_vars

\* two messages were dispatched one after the other, to both notifiers,
\* while all the sends of the first were still in flight
C25_Witness ==
    \E i, j \in Invs :
        /\ i < j
        /\ Dispatched(i) /\ Dispatched(j)
        /\ invocations[i].pending = Range(notifiers)
        /\ Cardinality(SendsOf(i)) = 2
        /\ Cardinality(SendsOf(j)) = 2

(***************************************************************************)
(* Vocabulary of the configuration properties.                             *)
(***************************************************************************)
\* every field of a configuration has its documented type
FiltersTyped(filters) ==
    /\ filters.t = "object"
    /\ Get(filters, "onlyWhenAway").t = "boolean"
    /\ Get(filters, "highlights").t = "boolean"
    /\ Get(filters, "keywords").t = "array"
    /\ Get(filters, "channels").t = "object"
    /\ Get(Get(filters, "channels"), "whitelist").t = "array"
    /\ Get(Get(filters, "channels"), "blacklist").t = "array"
ConfigTyped(cfg) ==
    /\ cfg.t = "object"
    /\ Get(cfg, "enabled").t = "boolean"
    /\ Get(cfg, "services").t = "object"
    /\ FiltersTyped(Get(cfg, "filters"))
\* the field of the result is the input's when that has type t, and the
\* default otherwise
TypedOrDefault(in, out, t, default) == out = IF in.t = t THEN in ELSE default
\* the last call returned a configuration
ReturnedConfig == store.op \in {"validateConfig", "load"}
\* the file is as the last successful save left it
FileIsSaved == store.saved # Undefined

(***************************************************************************)
(* C26: validateConfig, load and save give a configuration in which every  *)
(* field has its documented type (enabled, onlyWhenAway and highlights     *)
(* booleans, services a map, keywords, whitelist and blacklist arrays),    *)
(* and a missing or mistyped field, a services value that is not a map     *)
(* included, is replaced by its default.                                   *)
(***************************************************************************)
C26_EveryFieldTyped ==
    /\ ReturnedConfig => ConfigTyped(store.result)
    /\ FileIsSaved => ConfigTyped(JSONParse(store.file))
    /\ store.op = "validateConfig" =>
          LET in == store.arg
              out == store.result
              inF == Get(in, "filters")
              outF == Get(out, "filters")
              inC == Get(inF, "channels")
              outC == Get(outF, "channels")
          IN  /\ TypedOrDefault(Get(in, "enabled"), Get(out, "enabled"),
                                "boolean", Bool(FALSE))
              /\ Get(in, "services").t # "object" =>
                     Get(out, "services") = EmptyObject
              /\ TypedOrDefault(Get(inF, "onlyWhenAway"), Get(outF, "onlyWhenAway"),
                                "boolean", Bool(TRUE))
              /\ TypedOrDefault(Get(inF, "highlights"), Get(outF, "highlights"),
                                "boolean", Bool(TRUE))
              /\ TypedOrDefault(Get(inF, "keywords"), Get(outF, "keywords"),
                                "array", Arr(<<>>))
              /\ TypedOrDefault(Get(inC, "whitelist"), Get(outC, "whitelist"),
                                "array", Arr(<<>>))
              /\ TypedOrDefault(Get(inC, "blacklist"), Get(outC, "blacklist"),
                                "array", Arr(<<>>))

\* what holds without the services field: every other field is typed, and
\* services is the input's value whenever that is truthy
C26_AllButServicesTyped ==
    /\ ReturnedConfig =>
          /\ Get(store.result, "enabled").t = "boolean"
          /\ FiltersTyped(Get(store.result, "filters"))
    /\ (store.op = "validateConfig" /\ Get(store.arg, "services").t \notin {"object", "undefined"})
          => Get(store.result, "services") = Get(store.arg, "services")

\* validateConfig was given a services value that is a string and returned
\* the string
C26_WitnessServicesString ==
    /\ store.op = "validateConfig"
    /\ Get(store.arg, "services").t = "string"
    /\ Get(store.result, "services") = Get(store.arg, "services")

(***************************************************************************)
(* C27: save followed by load round-trips through validation: after        *)
(* save(c) returned true, load() returns a configuration equal to          *)
(* validateConfig(c); validateConfig is idempotent; and so the file a save *)
(* wrote never holds an invalid value.                                     *)
(***************************************************************************)
C27_SaveLoadRoundTrip ==
    /\ (store.op = "load" /\ FileIsSaved)
          => store.result = ValidateConfig(store.saved)
    /\ store.op = "validateConfig"
          => ValidateConfig(store.result) = store.result
    /\ FileIsSaved => ConfigTyped(JSONParse(store.file))

\* the parts of it that hold: validateConfig is idempotent, and when
\* validateConfig(c) holds no NaN the file a save wrote is validateConfig(c)
\* and load returns it
C27_Idempotent ==
    /\ store.op = "validateConfig"
          => ValidateConfig(store.result) = store.result
    /\ (FileIsSaved
            /\ JSONStringify(ValidateConfig(store.saved)) = ValidateConfig(store.saved))
          => /\ JSONParse(store.file) = ValidateConfig(store.saved)
             /\ store.op = "load" => store.result = ValidateConfig(store.saved)

\* a configuration whose pushover priority is NaN was saved and loaded: the
\* file holds null and load returns the priority 0
C27_WitnessNaN ==
    /\ store.op = "load"
    /\ FileIsSaved
    /\ Get(Get(Get(ValidateConfig(store.saved), "services"), "pushover"), "priority") = NaN
    /\ Get(Get(Get(store.result, "services"), "pushover"), "priority") = Num(0)

\* a configuration whose services value is a string was saved, and the file
\* holds the string
C27_WitnessInvalidSaved ==
    /\ FileIsSaved
    /\ Get(store.saved, "services").t = "string"
    /\ Get(JSONParse(store.file), "services") = Get(store.saved, "services")

(***************************************************************************)
(* Vocabulary of the notifier properties.                                  *)
(***************************************************************************)
\* a notifier object exists
Constructed == vendor.state \in {"metadata", "ready"}
Payloads == 1..Len(vendor.calls)
Promises == 1..Len(vendor.promises)
\* an integer in the closed range -2..2
PriorityInRange(priority) ==
    priority.t = "number" /\ ~priority.nan /\ priority.halves \in {-4, -2, 0, 2, 4}
NonEmptyString(value) == value.t = "string" /\ Len(value.v) > 0

(***************************************************************************)
(* C28: the priority of every Pushover payload sent, and the priority of   *)
(* every pushover service configuration validateConfig returns, is an      *)
(* integer in the closed range -2..2: a missing or out-of-range priority   *)
(* is replaced by the default 0 or makes the notifier fail validation.     *)
(***************************************************************************)
C28_PriorityInRange ==
    /\ \A k \in Payloads : PriorityInRange(vendor.calls[k].priority)
    /\ vendor.validated => PriorityInRange(Get(vendor.input, "priority"))
    /\ (vendor.state = "ready" /\ ~PriorityInRange(Get(vendor.input, "priority")))
          => vendor.priority = Num(0)

\* what holds of the newer notifier: it is in ready mode only with a
\* priority in range, and so are its payloads; and validateConfig always
\* returns a number
C28_NewerNotifierInRange ==
    /\ pushoverModule = "dualMode" =>
          /\ vendor.state = "ready" => PriorityInRange(vendor.priority)
          /\ \A k \in Payloads : PriorityInRange(vendor.calls[k].priority)
    /\ vendor.validated => Get(vendor.input, "priority").t = "number"

\* validateConfig returned the priority 99, the older notifier was built
\* from it and a payload with priority 99 went to the vendor
C28_WitnessOutOfRange ==
    /\ vendor.validated
    /\ vendor.state = "ready"
    /\ Get(vendor.input, "priority") = Num(99)
    /\ \E k \in Payloads : vendor.calls[k].priority = Num(99)

\* both credentials of the constructor's argument are non-empty strings
CredentialsNonEmpty ==
    /\ NonEmptyString(Get(vendor.input, "userKey"))
    /\ NonEmptyString(Get(vendor.input, "apiToken"))
\* both are strings of the expected length
CredentialsOfKeyLen ==
    /\ CredentialsNonEmpty
    /\ Len(Get(vendor.input, "userKey").v) = PushoverKeyLen
    /\ Len(Get(vendor.input, "apiToken").v) = PushoverKeyLen
\* nothing but the credentials stands between the argument and ready mode
RestValid ==
    /\ pushoverModule = "dualMode" =>
          /\ Truthy(Get(vendor.input, "enabled"))
          /\ Get(vendor.input, "priority") = Undefined
                \/ PriorityInRange(Get(vendor.input, "priority"))
          /\ Get(vendor.input, "sound") = Undefined
                \/ NonEmptyString(Get(vendor.input, "sound"))

C29_WitnessOlder ==
    /\ pushoverModule = "throwing"
    /\ CredentialsNonEmpty
    /\ Len(Get(vendor.input, "userKey").v) = 5
    /\ vendor.valid = Bool(TRUE)
    /\ vendor.state = "ready"

(***************************************************************************)
(* C30: send of a notifier in ready mode never throws synchronously: every *)
(* call returns a promise and hands exactly one payload to the vendor      *)
(* client; the promise stays pending until the vendor calls back, resolves *)
(* when the callback reports no error and rejects with the vendor's error  *)
(* when it reports one, and once settled it never changes.                 *)
(***************************************************************************)
C30_SendSettlesByCallback ==
    /\ [](vendor.state = "ready" =>
            /\ vendor.thrown = 0
            /\ Len(vendor.calls) = Len(vendor.promises)
            /\ \A i \in Promises :
                  LET p == vendor.promises[i]
                  IN  /\ p.call = i
                      /\ p.callbacks = 0 =>
                            \/ p.state = "pending" /\ p.error = "none"
                            \/ p.state = "rejected" /\ p.error = "thrown by the vendor"
                      /\ p.callbacks # 0 =>
                            /\ p.callbacks = 1
                            /\ p.error \in VendorErrors
                            /\ p.state = IF p.error = "none" THEN "resolved" ELSE "rejected")
    /\ [][\A i \in Promises :
             vendor.promises[i].state # "pending"
                 => vendor'.promises[i] = vendor.promises[i]]_vars

\* a notifier in ready mode sent twice: the vendor reported an error for one
\* payload and none for the other, and the promises are rejected with that
\* error and resolved
C30_Witness ==
    /\ vendor.state = "ready"
    /\ Len(vendor.calls) = 2
    /\ \E i, j \in Promises :
          /\ vendor.promises[i].state = "rejected"
          /\ vendor.promises[i].error = "API error"
          /\ vendor.promises[j].state = "resolved"

\* the constructor's argument fails the validation of the notifier's version
FailsValidation ==
    IF pushoverModule = "throwing"
    THEN ~(Truthy(Get(vendor.input, "userKey")) /\ Truthy(Get(vendor.input, "apiToken")))
    ELSE \/ ~CredentialsOfKeyLen
         \/ ~(Get(vendor.input, "priority") = Undefined
                \/ PriorityInRange(Get(vendor.input, "priority")))
         \/ ~(Get(vendor.input, "sound") = Undefined
                \/ NonEmptyString(Get(vendor.input, "sound")))

C31_WitnessNoConfig ==
    /\ Constructed
    /\ vendor.input = EmptyObject
    /\ vendor.state = "metadata"
    /\ Len(vendor.promises) = 1
    /\ vendor.promises[1].state = "rejected"

(***************************************************************************)
(* Vocabulary of the notification properties.                              *)
(***************************************************************************)
Sends == 1..Len(sendLog)
\* the message whose processing made the k-th send
MessageOf(k) == invocations[sendLog[k].inv].msg
BeginsWithHash(channel) == Len(channel) > 0 /\ channel[1] = "#"

(***************************************************************************)
(* C32: the notification of a message has as title the network, followed   *)
(* by " - " and the channel exactly when the channel begins with "#"; as   *)
(* body "* nick text" for an action and "<nick> text" for every other      *)
(* kind; and as timestamp the timestamp of the message.                    *)
(***************************************************************************)
C32_NotificationFormat ==
    \A k \in Sends :
        LET msg == MessageOf(k)
            n == sendLog[k].notification
        IN  /\ n.title = IF BeginsWithHash(msg.channel)
                         THEN msg.network \o <<" ", "-", " ">> \o msg.channel
                         ELSE msg.network
            /\ n.message = IF msg.type = "action"
                           THEN <<"*", " ">> \o msg.nick \o <<" ">> \o msg.message
                           ELSE <<"<">> \o msg.nick \o <<">", " ">> \o msg.message
            /\ n.timestamp = msg.timestamp

\* an action in a query and a message in a channel were both sent on, at a
\* time other than 0
C32_Witness ==
    /\ now # 0
    /\ \E k, l \in Sends :
          /\ MessageOf(k).type = "action"
          /\ ~BeginsWithHash(MessageOf(k).channel)
          /\ sendLog[k].notification.title = NetName
          /\ MessageOf(l).type = "privmsg"
          /\ BeginsWithHash(MessageOf(l).channel)
          /\ sendLog[l].notification.timestamp = now

\* the fields the dedup key is made of agree: network, channel, nick and the
\* first 50 characters of the body
SameKeyFields(a, b) ==
    /\ a.network = b.network
    /\ a.channel = b.channel
    /\ a.nick = b.nick
    /\ ~DifferWithinPrefix(a.message, b.message)

(***************************************************************************)
(* C33: the dedup key is a function of network, channel, nick and the      *)
(* first 50 characters of the body and of nothing else: two messages that  *)
(* agree on these, whatever their kind and whatever follows position 50,   *)
(* get the same key, and the later one is suppressed as a duplicate of the *)
(* earlier one.                                                            *)
(***************************************************************************)
C33_KeyOfPrefix ==
    \A i, j \in Invs :
        (i < j /\ SameKeyFields(invocations[i].msg, invocations[j].msg)) =>
            /\ GetDeduplicationKey(invocations[i].msg)
                   = GetDeduplicationKey(invocations[j].msg)
            /\ GetDeduplicationKey(invocations[j].msg) \in recentNotifications
            /\ invocations[j].result = "duplicate"
            /\ SendsOf(j) = {}

\* two bodies of 51 characters that differ in the last one were passed one
\* after the other: the first was sent on, the second suppressed
C33_Witness ==
    /\ Len(invocations) = 2
    /\ invocations[1].msg.message # invocations[2].msg.message
    /\ Len(invocations[1].msg.message) > DedupPrefixLen
    /\ SameKeyFields(invocations[1].msg, invocations[2].msg)
    /\ invocations[1].result = "dispatched"
    /\ invocations[2].result = "duplicate"

(***************************************************************************)
(* C36: dedup keys are distinct for distinct messages: two messages that   *)
(* differ in network, channel, nick or the first 50 characters of the body *)
(* never get the same key, also when these fields hold the "-" separator,  *)
(* so a message is suppressed as a duplicate only of an earlier message    *)
(* that agrees with it on all four.                                        *)
(***************************************************************************)
C36_KeysDistinct ==
    /\ \A i, j \in Invs :
          ~SameKeyFields(invocations[i].msg, invocations[j].msg) =>
              GetDeduplicationKey(invocations[i].msg)
                  # GetDeduplicationKey(invocations[j].msg)
    /\ \A j \in Invs :
          invocations[j].result = "duplicate" =>
              \E i \in 1..(j - 1) :
                  SameKeyFields(invocations[i].msg, invocations[j].msg)

\* what holds when no field holds the separator: the keys of messages that
\* differ in one of the four are distinct
C36_DistinctWithoutDash ==
    \A i, j \in Invs :
        LET a == invocations[i].msg
            b == invocations[j].msg
            plain(s) == \A p \in 1..Len(s) : s[p] # "-"
        IN  (/\ ~SameKeyFields(a, b)
             /\ plain(a.network) /\ plain(a.channel) /\ plain(a.nick)
             /\ plain(b.network) /\ plain(b.channel) /\ plain(b.nick))
                => GetDeduplicationKey(a) # GetDeduplicationKey(b)

\* "ok" from c in #a-b was sent on, and "ok" from b-c in #a was then
\* suppressed as its duplicate
C36_WitnessCollision ==
    /\ Len(invocations) = 2
    /\ invocations[1].msg.channel = ChanAB /\ invocations[1].msg.nick = NickC
    /\ invocations[2].msg.channel = ChanA /\ invocations[2].msg.nick = NickBC
    /\ invocations[1].result = "dispatched"
    /\ invocations[2].result = "duplicate"

(***************************************************************************)
(* Vocabulary of the host properties.                                      *)
(***************************************************************************)
HostKeys == DOMAIN pluginState.map
\* the step is the given command or event on the session of the given key
HostStep(command, key) ==
    /\ pluginState'.ops = pluginState.ops + 1
    /\ pluginState'.last.command = command
    /\ pluginState'.last.key = key
\* the step is a restart of the host
RestartStep == pluginState'.restarts = pluginState.restarts + 1
\* the keys of the other sessions of the same user
OtherNetworks(p) == {q \in HostPairs : q[1] = p[1] /\ q[2] # p[2]}

(***************************************************************************)
(* C34: the enabled state survives a restart of the host: a session that   *)
(* was enabled when the host stopped is enabled after the restart, with    *)
(* its listeners and its manager, so that it goes on sending without a new *)
(* enable command.                                                         *)
(***************************************************************************)
C34_EnabledSurvivesRestart ==
    [][RestartStep =>
          \A key \in HostKeys :
              pluginState.map[key].enabled =>
                  /\ key \in DOMAIN pluginState'.map
                  /\ pluginState'.map[key].enabled
                  /\ pluginState'.map[key].listeners > 0
                  /\ pluginState'.map[key].notificationManager # 0]_vars

\* what holds instead: a restart leaves no session, no listener and no
\* timer, and the files as they were
C34_RestartForgets ==
    [][RestartStep =>
          /\ pluginState'.map = <<>>
          /\ pluginState'.timers = <<>>
          /\ pluginState'.files = pluginState.files]_vars

\* a session was enabled and had sent a notification when the host
\* restarted: after the restart there is no session
C34_WitnessForgotten ==
    /\ pluginState.last.command = "restart"
    /\ pluginState.ops >= 2
    /\ pluginState.map = <<>>

(***************************************************************************)
(* C35: each network has its own configuration: a successful add-keyword   *)
(* or remove-keyword on one network of a user leaves the configuration     *)
(* that another network of the same user loads as it was.                  *)
(***************************************************************************)
C35_NetworksIndependent ==
    [][\A p \in HostPairs :
          /\ \/ HostStep("add-keyword", PluginKey(p[1], p[2]))
             \/ HostStep("remove-keyword", PluginKey(p[1], p[2]))
          /\ pluginState'.last.result = "ok"
          => \A q \in OtherNetworks(p) :
                 Load(pluginState'.files[ConfigPath(q[1], q[2])])
                     = Load(pluginState.files[ConfigPath(q[1], q[2])])]_vars

(***************************************************************************)
(* C37: re-enabling reuses the retained manager and its dedup cache: an    *)
(* enable that succeeds on a disabled session that has a manager keeps     *)
(* that manager and its cache, so that a message the session sent on since *)
(* a cleanup timer last fired is not sent on again.                        *)
(***************************************************************************)
C37_ReenableReusesRouter ==
    [][\A key \in HostKeys :
          /\ (/\ HostStep("enable", key)
              /\ pluginState'.last.result = "ok"
              /\ ~pluginState.map[key].enabled
              /\ pluginState.map[key].notificationManager # 0
              => /\ pluginState'.map[key].notificationManager
                        = pluginState.map[key].notificationManager
                 /\ pluginState'.map[key].recent = pluginState.map[key].recent)
          /\ (/\ HostStep("event", key)
              /\ pluginState'.last.result = "dispatched"
              => pluginState'.map[key].notified # pluginState.map[key].notified)]_vars

(***************************************************************************)
(* C38: each session has at most one running cleanup timer: the timers     *)
(* that run are never more than the sessions that have a manager.          *)
(***************************************************************************)
C38_OneTimerPerSession ==
    Len(pluginState.timers)
        <= Cardinality({key \in HostKeys : pluginState.map[key].notificationManager # 0})

(***************************************************************************)
(* C39: a settings change takes effect on the running manager: the message *)
(* that follows a successful add-keyword or remove-keyword on an enabled   *)
(* session is filtered with the keyword list the command left in the file. *)
(***************************************************************************)
C39_ChangeTakesEffect ==
    [][\A p \in HostPairs, m \in HostMessages :
          /\ pluginState.last.command \in {"add-keyword", "remove-keyword"}
          /\ pluginState.last.key = PluginKey(p[1], p[2])
          /\ pluginState.last.result = "ok"
          /\ HostEvent(p[1], p[2], m)
          /\ pluginState'.last.result # "dropped"
          => (pluginState'.last.result = "filtered")
                 = ~ShouldNotify(MessageData(m, now), client,
                                 Load(pluginState.files[ConfigPath(p[1], p[2])]).filters)]_vars

\* the calls made since the cleanup timer last fired
InEpoch == {i \in Invs : invocations[i].epoch = Epoch}
\* every send of the i-th call has failed
AllSendsFailed(i) ==
    /\ invocations[i].pending = {}
    /\ invocations[i].failed = Range(notifiers)

(***************************************************************************)
(* C40: the dedup key of a qualifying message is recorded when its sends   *)
(* are started and is kept whatever their outcome: until the cleanup timer *)
(* fires the key of a dispatched message is in the cache, whether its      *)
(* sends are pending, succeeded or failed and whether there is a notifier  *)
(* at all, and a later message of the same epoch with that key is not      *)
(* dispatched and no send is made for it.                                  *)
(***************************************************************************)
C40_KeyKeptWhateverOutcome ==
    \A i \in InEpoch :
        Dispatched(i) =>
            /\ GetDeduplicationKey(invocations[i].msg) \in recentNotifications
            /\ \A j \in InEpoch :
                   (/\ j > i
                    /\ GetDeduplicationKey(invocations[j].msg)
                           = GetDeduplicationKey(invocations[i].msg))
                   => /\ invocations[j].result = "duplicate"
                      /\ SendsOf(j) = {}

\* every send of a message failed and its repeat, in the same epoch, was
\* suppressed
C40_Witness ==
    \E i \in InEpoch, j \in InEpoch :
        /\ i < j
        /\ Dispatched(i)
        /\ notifiers # <<>>
        /\ AllSendsFailed(i)
        /\ invocations[j].msg.message = invocations[i].msg.message
        /\ invocations[j].result = "duplicate"

\* the manager has no notifier: the repeat of a dispatched message was
\* suppressed all the same
C40_WitnessNoNotifier ==
    \E i \in InEpoch, j \in InEpoch :
        /\ i < j
        /\ Dispatched(i)
        /\ notifiers = <<>>
        /\ invocations[j].msg.message = invocations[i].msg.message
        /\ invocations[j].result = "duplicate"

====
